---- MODULE Spec2Model ----
(***************************************************************************)
(* Model of the hotel booking backend in src/main.py: the booking ledger   *)
(* (bookings_collection), the room type catalog (room_types_collection),   *)
(* the date of the clock (today), and the handlers make_booking,           *)
(* cancel_booking, available_rooms, get_bookings_by_email and the admin    *)
(* requests on the catalog.  Every handler is a coroutine: it runs from    *)
(* one await of a storage call to the next in one step, and the steps of   *)
(* the requests in progress interleave.                                    *)
(*                                                                         *)
(* A string is the sequence of the code points of its characters.          *)
(***************************************************************************)
EXTENDS Integers, Sequences, FiniteSets, TLC

VARIABLES bookings, room_types, resp, tasks, today

vars == <<bookings, room_types, resp, tasks, today>>

----------------------------------------------------------------------------
(* Bound of the model: the number of requests that arrive *)

NumTasks == 3

----------------------------------------------------------------------------
(* Characters *)

\* the character '-'
Dash == 45

\* the character ' '
Blank == 32

\* the character 'x'
LetterX == 120

\* the character of the ASCII digit d
Digit(d) == 48 + d

\* the class [lo-hi] of a pattern, lo and hi being ASCII digits
InClass(c, lo, hi) == Digit(lo) <= c /\ c <= Digit(hi)

\* The characters that \d matches are the decimal digits of Unicode: blocks
\* of ten, each beginning at the character of value 0.  DecimalZeros are the
\* characters of value 0 (Unicode 14).
DecimalZeros ==
    {
      48, 1632, 1776, 1984, 2406, 2534, 2662, 2790, 2918, 3046, 3174, 3302,
      3430, 3558, 3664, 3792, 3872, 4160, 4240, 6112, 6160, 6470, 6608,
      6784, 6800, 6992, 7088, 7232, 7248, 42528, 43216, 43264, 43472,
      43504, 43600, 44016, 65296, 66720, 68912, 69734, 69872, 69942, 70096,
      70384, 70736, 70864, 71248, 71360, 71472, 71904, 72016, 72784, 73040,
      73120, 92768, 92864, 93008, 120782, 120792, 120802, 120812, 120822,
      123200, 123632, 125264, 130032    }

IsDecimal(c) == \E z \in DecimalZeros : z <= c /\ c <= z + 9

\* int() of one decimal digit
DecimalValue(c) == c - (CHOOSE z \in DecimalZeros : z <= c /\ c <= z + 9)

\* The characters with a lower-case form of one character, as runs
\* <<first, last, step, offset>>: every step-th character from first to last
\* has the lower-case form offset places further (Unicode 14).
LowerRuns ==
    {
      <<65, 90, 1, 32>>, <<192, 214, 1, 32>>, <<216, 222, 1, 32>>,
      <<256, 302, 2, 1>>, <<306, 310, 2, 1>>, <<313, 327, 2, 1>>,
      <<330, 374, 2, 1>>, <<376, 376, 1, -121>>, <<377, 381, 2, 1>>,
      <<385, 385, 1, 210>>, <<386, 388, 2, 1>>, <<390, 390, 1, 206>>,
      <<391, 391, 1, 1>>, <<393, 394, 1, 205>>, <<395, 395, 1, 1>>,
      <<398, 398, 1, 79>>, <<399, 399, 1, 202>>, <<400, 400, 1, 203>>,
      <<401, 401, 1, 1>>, <<403, 403, 1, 205>>, <<404, 404, 1, 207>>,
      <<406, 406, 1, 211>>, <<407, 407, 1, 209>>, <<408, 408, 1, 1>>,
      <<412, 412, 1, 211>>, <<413, 413, 1, 213>>, <<415, 415, 1, 214>>,
      <<416, 420, 2, 1>>, <<422, 422, 1, 218>>, <<423, 423, 1, 1>>,
      <<425, 425, 1, 218>>, <<428, 428, 1, 1>>, <<430, 430, 1, 218>>,
      <<431, 431, 1, 1>>, <<433, 434, 1, 217>>, <<435, 437, 2, 1>>,
      <<439, 439, 1, 219>>, <<440, 440, 1, 1>>, <<444, 444, 1, 1>>,
      <<452, 452, 1, 2>>, <<453, 453, 1, 1>>, <<455, 455, 1, 2>>,
      <<456, 456, 1, 1>>, <<458, 458, 1, 2>>, <<459, 475, 2, 1>>,
      <<478, 494, 2, 1>>, <<497, 497, 1, 2>>, <<498, 500, 2, 1>>,
      <<502, 502, 1, -97>>, <<503, 503, 1, -56>>, <<504, 542, 2, 1>>,
      <<544, 544, 1, -130>>, <<546, 562, 2, 1>>, <<570, 570, 1, 10795>>,
      <<571, 571, 1, 1>>, <<573, 573, 1, -163>>, <<574, 574, 1, 10792>>,
      <<577, 577, 1, 1>>, <<579, 579, 1, -195>>, <<580, 580, 1, 69>>,
      <<581, 581, 1, 71>>, <<582, 590, 2, 1>>, <<880, 882, 2, 1>>,
      <<886, 886, 1, 1>>, <<895, 895, 1, 116>>, <<902, 902, 1, 38>>,
      <<904, 906, 1, 37>>, <<908, 908, 1, 64>>, <<910, 911, 1, 63>>,
      <<913, 929, 1, 32>>, <<931, 939, 1, 32>>, <<975, 975, 1, 8>>,
      <<984, 1006, 2, 1>>, <<1012, 1012, 1, -60>>, <<1015, 1015, 1, 1>>,
      <<1017, 1017, 1, -7>>, <<1018, 1018, 1, 1>>, <<1021, 1023, 1, -130>>,
      <<1024, 1039, 1, 80>>, <<1040, 1071, 1, 32>>, <<1120, 1152, 2, 1>>,
      <<1162, 1214, 2, 1>>, <<1216, 1216, 1, 15>>, <<1217, 1229, 2, 1>>,
      <<1232, 1326, 2, 1>>, <<1329, 1366, 1, 48>>, <<4256, 4293, 1, 7264>>,
      <<4295, 4295, 1, 7264>>, <<4301, 4301, 1, 7264>>,
      <<5024, 5103, 1, 38864>>, <<5104, 5109, 1, 8>>,
      <<7312, 7354, 1, -3008>>, <<7357, 7359, 1, -3008>>,
      <<7680, 7828, 2, 1>>, <<7838, 7838, 1, -7615>>, <<7840, 7934, 2, 1>>,
      <<7944, 7951, 1, -8>>, <<7960, 7965, 1, -8>>, <<7976, 7983, 1, -8>>,
      <<7992, 7999, 1, -8>>, <<8008, 8013, 1, -8>>, <<8025, 8031, 2, -8>>,
      <<8040, 8047, 1, -8>>, <<8072, 8079, 1, -8>>, <<8088, 8095, 1, -8>>,
      <<8104, 8111, 1, -8>>, <<8120, 8121, 1, -8>>, <<8122, 8123, 1, -74>>,
      <<8124, 8124, 1, -9>>, <<8136, 8139, 1, -86>>, <<8140, 8140, 1, -9>>,
      <<8152, 8153, 1, -8>>, <<8154, 8155, 1, -100>>,
      <<8168, 8169, 1, -8>>, <<8170, 8171, 1, -112>>,
      <<8172, 8172, 1, -7>>, <<8184, 8185, 1, -128>>,
      <<8186, 8187, 1, -126>>, <<8188, 8188, 1, -9>>,
      <<8486, 8486, 1, -7517>>, <<8490, 8490, 1, -8383>>,
      <<8491, 8491, 1, -8262>>, <<8498, 8498, 1, 28>>,
      <<8544, 8559, 1, 16>>, <<8579, 8579, 1, 1>>, <<9398, 9423, 1, 26>>,
      <<11264, 11311, 1, 48>>, <<11360, 11360, 1, 1>>,
      <<11362, 11362, 1, -10743>>, <<11363, 11363, 1, -3814>>,
      <<11364, 11364, 1, -10727>>, <<11367, 11371, 2, 1>>,
      <<11373, 11373, 1, -10780>>, <<11374, 11374, 1, -10749>>,
      <<11375, 11375, 1, -10783>>, <<11376, 11376, 1, -10782>>,
      <<11378, 11378, 1, 1>>, <<11381, 11381, 1, 1>>,
      <<11390, 11391, 1, -10815>>, <<11392, 11490, 2, 1>>,
      <<11499, 11501, 2, 1>>, <<11506, 11506, 1, 1>>,
      <<42560, 42604, 2, 1>>, <<42624, 42650, 2, 1>>,
      <<42786, 42798, 2, 1>>, <<42802, 42862, 2, 1>>,
      <<42873, 42875, 2, 1>>, <<42877, 42877, 1, -35332>>,
      <<42878, 42886, 2, 1>>, <<42891, 42891, 1, 1>>,
      <<42893, 42893, 1, -42280>>, <<42896, 42898, 2, 1>>,
      <<42902, 42920, 2, 1>>, <<42922, 42922, 1, -42308>>,
      <<42923, 42923, 1, -42319>>, <<42924, 42924, 1, -42315>>,
      <<42925, 42925, 1, -42305>>, <<42926, 42926, 1, -42308>>,
      <<42928, 42928, 1, -42258>>, <<42929, 42929, 1, -42282>>,
      <<42930, 42930, 1, -42261>>, <<42931, 42931, 1, 928>>,
      <<42932, 42946, 2, 1>>, <<42948, 42948, 1, -48>>,
      <<42949, 42949, 1, -42307>>, <<42950, 42950, 1, -35384>>,
      <<42951, 42953, 2, 1>>, <<42960, 42960, 1, 1>>,
      <<42966, 42968, 2, 1>>, <<42997, 42997, 1, 1>>,
      <<65313, 65338, 1, 32>>, <<66560, 66599, 1, 40>>,
      <<66736, 66771, 1, 40>>, <<66928, 66938, 1, 39>>,
      <<66940, 66954, 1, 39>>, <<66956, 66962, 1, 39>>,
      <<66964, 66965, 1, 39>>, <<68736, 68786, 1, 64>>,
      <<71840, 71871, 1, 32>>, <<93760, 93791, 1, 32>>,
      <<125184, 125217, 1, 34>>    }

\* The lower-case form of one character (_PyUnicode_ToLowerFull); U+0130
\* alone becomes two characters.
LowerChar(c) ==
    IF c = 304 THEN <<105, 775>>
    ELSE LET InRun(r) == r[1] <= c /\ c <= r[2] /\ (c - r[1]) % r[3] = 0
         IN  IF \E r \in LowerRuns : InRun(r)
             THEN <<c + (CHOOSE r \in LowerRuns : InRun(r))[4]>>
             ELSE <<c>>

\* The characters with the property Cased, as ranges <<first, last>>
\* (Unicode 14)
CasedRanges ==
    {
      <<65, 90>>, <<97, 122>>, <<170, 170>>, <<181, 181>>, <<186, 186>>,
      <<192, 214>>, <<216, 246>>, <<248, 442>>, <<444, 447>>, <<452, 659>>,
      <<661, 696>>, <<704, 705>>, <<736, 740>>, <<837, 837>>, <<880, 883>>,
      <<886, 887>>, <<890, 893>>, <<895, 895>>, <<902, 902>>, <<904, 906>>,
      <<908, 908>>, <<910, 929>>, <<931, 1013>>, <<1015, 1153>>,
      <<1162, 1327>>, <<1329, 1366>>, <<1376, 1416>>, <<4256, 4293>>,
      <<4295, 4295>>, <<4301, 4301>>, <<4304, 4346>>, <<4349, 4351>>,
      <<5024, 5109>>, <<5112, 5117>>, <<7296, 7304>>, <<7312, 7354>>,
      <<7357, 7359>>, <<7424, 7615>>, <<7680, 7957>>, <<7960, 7965>>,
      <<7968, 8005>>, <<8008, 8013>>, <<8016, 8023>>, <<8025, 8025>>,
      <<8027, 8027>>, <<8029, 8029>>, <<8031, 8061>>, <<8064, 8116>>,
      <<8118, 8124>>, <<8126, 8126>>, <<8130, 8132>>, <<8134, 8140>>,
      <<8144, 8147>>, <<8150, 8155>>, <<8160, 8172>>, <<8178, 8180>>,
      <<8182, 8188>>, <<8305, 8305>>, <<8319, 8319>>, <<8336, 8348>>,
      <<8450, 8450>>, <<8455, 8455>>, <<8458, 8467>>, <<8469, 8469>>,
      <<8473, 8477>>, <<8484, 8484>>, <<8486, 8486>>, <<8488, 8488>>,
      <<8490, 8493>>, <<8495, 8500>>, <<8505, 8505>>, <<8508, 8511>>,
      <<8517, 8521>>, <<8526, 8526>>, <<8544, 8575>>, <<8579, 8580>>,
      <<9398, 9449>>, <<11264, 11492>>, <<11499, 11502>>, <<11506, 11507>>,
      <<11520, 11557>>, <<11559, 11559>>, <<11565, 11565>>, <<42560, 42605>>,
      <<42624, 42653>>, <<42786, 42887>>, <<42891, 42894>>, <<42896, 42954>>,
      <<42960, 42961>>, <<42963, 42963>>, <<42965, 42969>>, <<42997, 42998>>,
      <<43000, 43002>>, <<43824, 43866>>, <<43868, 43880>>, <<43888, 43967>>,
      <<64256, 64262>>, <<64275, 64279>>, <<65313, 65338>>, <<65345, 65370>>,
      <<66560, 66639>>, <<66736, 66771>>, <<66776, 66811>>, <<66928, 66938>>,
      <<66940, 66954>>, <<66956, 66962>>, <<66964, 66965>>, <<66967, 66977>>,
      <<66979, 66993>>, <<66995, 67001>>, <<67003, 67004>>, <<67456, 67456>>,
      <<67459, 67461>>, <<67463, 67504>>, <<67506, 67514>>, <<68736, 68786>>,
      <<68800, 68850>>, <<71840, 71903>>, <<93760, 93823>>,
      <<119808, 119892>>, <<119894, 119964>>, <<119966, 119967>>,
      <<119970, 119970>>, <<119973, 119974>>, <<119977, 119980>>,
      <<119982, 119993>>, <<119995, 119995>>, <<119997, 120003>>,
      <<120005, 120069>>, <<120071, 120074>>, <<120077, 120084>>,
      <<120086, 120092>>, <<120094, 120121>>, <<120123, 120126>>,
      <<120128, 120132>>, <<120134, 120134>>, <<120138, 120144>>,
      <<120146, 120485>>, <<120488, 120512>>, <<120514, 120538>>,
      <<120540, 120570>>, <<120572, 120596>>, <<120598, 120628>>,
      <<120630, 120654>>, <<120656, 120686>>, <<120688, 120712>>,
      <<120714, 120744>>, <<120746, 120770>>, <<120772, 120779>>,
      <<122624, 122633>>, <<122635, 122654>>, <<125184, 125251>>,
      <<127280, 127305>>, <<127312, 127337>>, <<127344, 127369>>    }

\* The characters with the property Case_Ignorable, as ranges
\* <<first, last>> (Unicode 14)
CaseIgnorableRanges ==
    {
      <<39, 39>>, <<46, 46>>, <<58, 58>>, <<94, 94>>, <<96, 96>>,
      <<168, 168>>, <<173, 173>>, <<175, 175>>, <<180, 180>>, <<183, 184>>,
      <<688, 879>>, <<884, 885>>, <<890, 890>>, <<900, 901>>, <<903, 903>>,
      <<1155, 1161>>, <<1369, 1369>>, <<1375, 1375>>, <<1425, 1469>>,
      <<1471, 1471>>, <<1473, 1474>>, <<1476, 1477>>, <<1479, 1479>>,
      <<1524, 1524>>, <<1536, 1541>>, <<1552, 1562>>, <<1564, 1564>>,
      <<1600, 1600>>, <<1611, 1631>>, <<1648, 1648>>, <<1750, 1757>>,
      <<1759, 1768>>, <<1770, 1773>>, <<1807, 1807>>, <<1809, 1809>>,
      <<1840, 1866>>, <<1958, 1968>>, <<2027, 2037>>, <<2042, 2042>>,
      <<2045, 2045>>, <<2070, 2093>>, <<2137, 2139>>, <<2184, 2184>>,
      <<2192, 2193>>, <<2200, 2207>>, <<2249, 2306>>, <<2362, 2362>>,
      <<2364, 2364>>, <<2369, 2376>>, <<2381, 2381>>, <<2385, 2391>>,
      <<2402, 2403>>, <<2417, 2417>>, <<2433, 2433>>, <<2492, 2492>>,
      <<2497, 2500>>, <<2509, 2509>>, <<2530, 2531>>, <<2558, 2558>>,
      <<2561, 2562>>, <<2620, 2620>>, <<2625, 2626>>, <<2631, 2632>>,
      <<2635, 2637>>, <<2641, 2641>>, <<2672, 2673>>, <<2677, 2677>>,
      <<2689, 2690>>, <<2748, 2748>>, <<2753, 2757>>, <<2759, 2760>>,
      <<2765, 2765>>, <<2786, 2787>>, <<2810, 2815>>, <<2817, 2817>>,
      <<2876, 2876>>, <<2879, 2879>>, <<2881, 2884>>, <<2893, 2893>>,
      <<2901, 2902>>, <<2914, 2915>>, <<2946, 2946>>, <<3008, 3008>>,
      <<3021, 3021>>, <<3072, 3072>>, <<3076, 3076>>, <<3132, 3132>>,
      <<3134, 3136>>, <<3142, 3144>>, <<3146, 3149>>, <<3157, 3158>>,
      <<3170, 3171>>, <<3201, 3201>>, <<3260, 3260>>, <<3263, 3263>>,
      <<3270, 3270>>, <<3276, 3277>>, <<3298, 3299>>, <<3328, 3329>>,
      <<3387, 3388>>, <<3393, 3396>>, <<3405, 3405>>, <<3426, 3427>>,
      <<3457, 3457>>, <<3530, 3530>>, <<3538, 3540>>, <<3542, 3542>>,
      <<3633, 3633>>, <<3636, 3642>>, <<3654, 3662>>, <<3761, 3761>>,
      <<3764, 3772>>, <<3782, 3782>>, <<3784, 3789>>, <<3864, 3865>>,
      <<3893, 3893>>, <<3895, 3895>>, <<3897, 3897>>, <<3953, 3966>>,
      <<3968, 3972>>, <<3974, 3975>>, <<3981, 3991>>, <<3993, 4028>>,
      <<4038, 4038>>, <<4141, 4144>>, <<4146, 4151>>, <<4153, 4154>>,
      <<4157, 4158>>, <<4184, 4185>>, <<4190, 4192>>, <<4209, 4212>>,
      <<4226, 4226>>, <<4229, 4230>>, <<4237, 4237>>, <<4253, 4253>>,
      <<4348, 4348>>, <<4957, 4959>>, <<5906, 5908>>, <<5938, 5939>>,
      <<5970, 5971>>, <<6002, 6003>>, <<6068, 6069>>, <<6071, 6077>>,
      <<6086, 6086>>, <<6089, 6099>>, <<6103, 6103>>, <<6109, 6109>>,
      <<6155, 6159>>, <<6211, 6211>>, <<6277, 6278>>, <<6313, 6313>>,
      <<6432, 6434>>, <<6439, 6440>>, <<6450, 6450>>, <<6457, 6459>>,
      <<6679, 6680>>, <<6683, 6683>>, <<6742, 6742>>, <<6744, 6750>>,
      <<6752, 6752>>, <<6754, 6754>>, <<6757, 6764>>, <<6771, 6780>>,
      <<6783, 6783>>, <<6823, 6823>>, <<6832, 6862>>, <<6912, 6915>>,
      <<6964, 6964>>, <<6966, 6970>>, <<6972, 6972>>, <<6978, 6978>>,
      <<7019, 7027>>, <<7040, 7041>>, <<7074, 7077>>, <<7080, 7081>>,
      <<7083, 7085>>, <<7142, 7142>>, <<7144, 7145>>, <<7149, 7149>>,
      <<7151, 7153>>, <<7212, 7219>>, <<7222, 7223>>, <<7288, 7293>>,
      <<7376, 7378>>, <<7380, 7392>>, <<7394, 7400>>, <<7405, 7405>>,
      <<7412, 7412>>, <<7416, 7417>>, <<7468, 7530>>, <<7544, 7544>>,
      <<7579, 7679>>, <<8125, 8125>>, <<8127, 8129>>, <<8141, 8143>>,
      <<8157, 8159>>, <<8173, 8175>>, <<8189, 8190>>, <<8203, 8207>>,
      <<8216, 8217>>, <<8228, 8228>>, <<8231, 8231>>, <<8234, 8238>>,
      <<8288, 8292>>, <<8294, 8303>>, <<8305, 8305>>, <<8319, 8319>>,
      <<8336, 8348>>, <<8400, 8432>>, <<11388, 11389>>, <<11503, 11505>>,
      <<11631, 11631>>, <<11647, 11647>>, <<11744, 11775>>, <<11823, 11823>>,
      <<12293, 12293>>, <<12330, 12333>>, <<12337, 12341>>, <<12347, 12347>>,
      <<12441, 12446>>, <<12540, 12542>>, <<40981, 40981>>, <<42232, 42237>>,
      <<42508, 42508>>, <<42607, 42610>>, <<42612, 42621>>, <<42623, 42623>>,
      <<42652, 42655>>, <<42736, 42737>>, <<42752, 42785>>, <<42864, 42864>>,
      <<42888, 42890>>, <<42994, 42996>>, <<43000, 43001>>, <<43010, 43010>>,
      <<43014, 43014>>, <<43019, 43019>>, <<43045, 43046>>, <<43052, 43052>>,
      <<43204, 43205>>, <<43232, 43249>>, <<43263, 43263>>, <<43302, 43309>>,
      <<43335, 43345>>, <<43392, 43394>>, <<43443, 43443>>, <<43446, 43449>>,
      <<43452, 43453>>, <<43471, 43471>>, <<43493, 43494>>, <<43561, 43566>>,
      <<43569, 43570>>, <<43573, 43574>>, <<43587, 43587>>, <<43596, 43596>>,
      <<43632, 43632>>, <<43644, 43644>>, <<43696, 43696>>, <<43698, 43700>>,
      <<43703, 43704>>, <<43710, 43711>>, <<43713, 43713>>, <<43741, 43741>>,
      <<43756, 43757>>, <<43763, 43764>>, <<43766, 43766>>, <<43867, 43871>>,
      <<43881, 43883>>, <<44005, 44005>>, <<44008, 44008>>, <<44013, 44013>>,
      <<64286, 64286>>, <<64434, 64450>>, <<65024, 65039>>, <<65043, 65043>>,
      <<65056, 65071>>, <<65106, 65106>>, <<65109, 65109>>, <<65279, 65279>>,
      <<65287, 65287>>, <<65294, 65294>>, <<65306, 65306>>, <<65342, 65342>>,
      <<65344, 65344>>, <<65392, 65392>>, <<65438, 65439>>, <<65507, 65507>>,
      <<65529, 65531>>, <<66045, 66045>>, <<66272, 66272>>, <<66422, 66426>>,
      <<67456, 67461>>, <<67463, 67504>>, <<67506, 67514>>, <<68097, 68099>>,
      <<68101, 68102>>, <<68108, 68111>>, <<68152, 68154>>, <<68159, 68159>>,
      <<68325, 68326>>, <<68900, 68903>>, <<69291, 69292>>, <<69446, 69456>>,
      <<69506, 69509>>, <<69633, 69633>>, <<69688, 69702>>, <<69744, 69744>>,
      <<69747, 69748>>, <<69759, 69761>>, <<69811, 69814>>, <<69817, 69818>>,
      <<69821, 69821>>, <<69826, 69826>>, <<69837, 69837>>, <<69888, 69890>>,
      <<69927, 69931>>, <<69933, 69940>>, <<70003, 70003>>, <<70016, 70017>>,
      <<70070, 70078>>, <<70089, 70092>>, <<70095, 70095>>, <<70191, 70193>>,
      <<70196, 70196>>, <<70198, 70199>>, <<70206, 70206>>, <<70367, 70367>>,
      <<70371, 70378>>, <<70400, 70401>>, <<70459, 70460>>, <<70464, 70464>>,
      <<70502, 70508>>, <<70512, 70516>>, <<70712, 70719>>, <<70722, 70724>>,
      <<70726, 70726>>, <<70750, 70750>>, <<70835, 70840>>, <<70842, 70842>>,
      <<70847, 70848>>, <<70850, 70851>>, <<71090, 71093>>, <<71100, 71101>>,
      <<71103, 71104>>, <<71132, 71133>>, <<71219, 71226>>, <<71229, 71229>>,
      <<71231, 71232>>, <<71339, 71339>>, <<71341, 71341>>, <<71344, 71349>>,
      <<71351, 71351>>, <<71453, 71455>>, <<71458, 71461>>, <<71463, 71467>>,
      <<71727, 71735>>, <<71737, 71738>>, <<71995, 71996>>, <<71998, 71998>>,
      <<72003, 72003>>, <<72148, 72151>>, <<72154, 72155>>, <<72160, 72160>>,
      <<72193, 72202>>, <<72243, 72248>>, <<72251, 72254>>, <<72263, 72263>>,
      <<72273, 72278>>, <<72281, 72283>>, <<72330, 72342>>, <<72344, 72345>>,
      <<72752, 72758>>, <<72760, 72765>>, <<72767, 72767>>, <<72850, 72871>>,
      <<72874, 72880>>, <<72882, 72883>>, <<72885, 72886>>, <<73009, 73014>>,
      <<73018, 73018>>, <<73020, 73021>>, <<73023, 73029>>, <<73031, 73031>>,
      <<73104, 73105>>, <<73109, 73109>>, <<73111, 73111>>, <<73459, 73460>>,
      <<78896, 78904>>, <<92912, 92916>>, <<92976, 92982>>, <<92992, 92995>>,
      <<94031, 94031>>, <<94095, 94111>>, <<94176, 94177>>, <<94179, 94180>>,
      <<110576, 110579>>, <<110581, 110587>>, <<110589, 110590>>,
      <<113821, 113822>>, <<113824, 113827>>, <<118528, 118573>>,
      <<118576, 118598>>, <<119143, 119145>>, <<119155, 119170>>,
      <<119173, 119179>>, <<119210, 119213>>, <<119362, 119364>>,
      <<121344, 121398>>, <<121403, 121452>>, <<121461, 121461>>,
      <<121476, 121476>>, <<121499, 121503>>, <<121505, 121519>>,
      <<122880, 122886>>, <<122888, 122904>>, <<122907, 122913>>,
      <<122915, 122916>>, <<122918, 122922>>, <<123184, 123197>>,
      <<123566, 123566>>, <<123628, 123631>>, <<125136, 125142>>,
      <<125252, 125259>>, <<127995, 127999>>, <<917505, 917505>>,
      <<917536, 917631>>, <<917760, 917999>>    }

IsCased(c) == \E r \in CasedRanges : r[1] <= c /\ c <= r[2]

IsCaseIgnorable(c) == \E r \in CaseIgnorableRanges : r[1] <= c /\ c <= r[2]

\* the capital sigma, and its two lower-case forms: the final one and the
\* one written elsewhere
CapitalSigma == 931

FinalSigma == 962

SmallSigma == 963

\* The capital sigma at place i of s is at the end of a word: before it,
\* case-ignorable characters passed over, stands a cased character, and
\* after it, case-ignorable characters passed over, stands none.
IsFinalSigma(s, i) ==
    LET before == {j \in 1..(i - 1) : ~IsCaseIgnorable(s[j])}
        after == {j \in (i + 1)..Len(s) : ~IsCaseIgnorable(s[j])}
    IN  /\ before # {}
        /\ IsCased(s[CHOOSE j \in before : \A k \in before : k <= j])
        /\ \/ after = {}
           \/ ~IsCased(s[CHOOSE j \in after : \A k \in after : j <= k])

\* the lower-case form of the character at place i of s
LowerAt(s, i) ==
    IF s[i] = CapitalSigma
    THEN IF IsFinalSigma(s, i) THEN <<FinalSigma>> ELSE <<SmallSigma>>
    ELSE LowerChar(s[i])

RECURSIVE LowerUpTo(_, _)
LowerUpTo(s, n) ==
    IF n = 0 THEN <<>> ELSE LowerUpTo(s, n - 1) \o LowerAt(s, n)

\* str.lower()
Lower(s) == LowerUpTo(s, Len(s))

\* The order of MongoDB on strings ($lt): the first character that differs
\* decides, by the order of the code points, and a proper prefix is less.
RECURSIVE StrLess(_, _, _)
StrLess(a, b, i) ==
    IF i > Len(b) THEN FALSE
    ELSE IF i > Len(a) THEN TRUE
    ELSE IF a[i] # b[i] THEN a[i] < b[i]
    ELSE StrLess(a, b, i + 1)

----------------------------------------------------------------------------
(* datetime.strptime(date_str, "%Y-%m-%d") and date arithmetic *)

IsLeap(y) == (y % 4 = 0) /\ ((y % 100 # 0) \/ (y % 400 = 0))

DaysInMonth(y, m) ==
    IF m = 2 THEN (IF IsLeap(y) THEN 29 ELSE 28)
    ELSE IF m \in {4, 6, 9, 11} THEN 30 ELSE 31

RECURSIVE DaysBeforeMonth(_, _)
DaysBeforeMonth(y, m) ==
    IF m <= 1 THEN 0 ELSE DaysBeforeMonth(y, m - 1) + DaysInMonth(y, m - 1)

DaysBeforeYear(y) ==
    365 * (y - 1) + ((y - 1) \div 4) - ((y - 1) \div 100) + ((y - 1) \div 400)

\* date.toordinal(): the number of the day, 0001-01-01 being day 1
ToOrdinal(y, m, d) == DaysBeforeYear(y) + DaysBeforeMonth(y, m) + d

\* positions of the '-' characters of s
DashPos(s) == {i \in 1..Len(s) : s[i] = Dash}

\* The three fields of s when it has the shape <field>-<field>-<field>
DateFields(s) ==
    LET dp == DashPos(s)
        p1 == CHOOSE i \in dp : \A j \in dp : i <= j
        p2 == CHOOSE i \in dp : \A j \in dp : j <= i
    IN  <<SubSeq(s, 1, p1 - 1), SubSeq(s, p1 + 1, p2 - 1), SubSeq(s, p2 + 1, Len(s))>>

\* %Y is the pattern \d\d\d\d
MatchesYear(f) == Len(f) = 4 /\ \A i \in 1..4 : IsDecimal(f[i])

\* %m is the pattern 1[0-2]|0[1-9]|[1-9]
MatchesMonth(f) ==
    \/ Len(f) = 2 /\ f[1] = Digit(1) /\ InClass(f[2], 0, 2)
    \/ Len(f) = 2 /\ f[1] = Digit(0) /\ InClass(f[2], 1, 9)
    \/ Len(f) = 1 /\ InClass(f[1], 1, 9)

\* %d is the pattern 3[0-1]|[1-2]\d|0[1-9]|[1-9]| [1-9]
MatchesDay(f) ==
    \/ Len(f) = 2 /\ f[1] = Digit(3) /\ InClass(f[2], 0, 1)
    \/ Len(f) = 2 /\ InClass(f[1], 1, 2) /\ IsDecimal(f[2])
    \/ Len(f) = 2 /\ f[1] = Digit(0) /\ InClass(f[2], 1, 9)
    \/ Len(f) = 1 /\ InClass(f[1], 1, 9)
    \/ Len(f) = 2 /\ f[1] = Blank /\ InClass(f[2], 1, 9)

\* int() of a matched field: the value of its digits, a blank before them
\* counting for nothing
RECURSIVE DigitsValue(_)
DigitsValue(s) ==
    IF Len(s) = 0 THEN 0
    ELSE IF s[Len(s)] = Blank THEN DigitsValue(SubSeq(s, 1, Len(s) - 1))
    ELSE 10 * DigitsValue(SubSeq(s, 1, Len(s) - 1)) + DecimalValue(s[Len(s)])

\* strptime with "%Y-%m-%d": the whole string must match
\* <%Y>-<%m>-<%d>, the year must be 1 at least and the day must exist in the
\* month.  ok = FALSE stands for the ValueError.
Strptime(s) ==
    IF Cardinality(DashPos(s)) # 2 THEN [ok |-> FALSE, ord |-> 0]
    ELSE LET f == DateFields(s)
             year == DigitsValue(f[1])
             month == DigitsValue(f[2])
             day == DigitsValue(f[3])
         IN  IF /\ MatchesYear(f[1]) /\ MatchesMonth(f[2]) /\ MatchesDay(f[3])
                /\ year >= 1
                /\ day <= DaysInMonth(year, month)
             THEN [ok |-> TRUE, ord |-> ToOrdinal(year, month, day)]
             ELSE [ok |-> FALSE, ord |-> 0]

\* parse_date: the parsed date, or the HTTP 400 "Invalid date format"
parse_date(date_str) == Strptime(date_str)

Year4(y) ==
    <<Digit((y \div 1000) % 10), Digit((y \div 100) % 10),
      Digit((y \div 10) % 10), Digit(y % 10)>>

\* the text "<yyyy>-<mm>-<dd>", mm and dd given as their digits
DateStr(y, mm, dd) ==
    Year4(y) \o <<Dash>> \o [i \in 1..Len(mm) |-> Digit(mm[i])]
             \o <<Dash>> \o [i \in 1..Len(dd) |-> Digit(dd[i])]

----------------------------------------------------------------------------
(* The clock and the inputs of the requests *)

\* datetime.utcnow().date() is the variable today; but for the requests that
\* test the date rules, the model runs on 2026-11-29
Today1129 == ToOrdinal(2026, 11, 29)

HorizonDays == 30

max_date == today + HorizonDays

D_Past    == DateStr(2026, <<1, 1>>, <<2, 8>>)
D_1129    == DateStr(2026, <<1, 1>>, <<2, 9>>)
D_1130    == DateStr(2026, <<1, 1>>, <<3, 0>>)
D_1201    == DateStr(2026, <<1, 2>>, <<0, 1>>)
D_1201u   == DateStr(2026, <<1, 2>>, <<1>>)
D_1202    == DateStr(2026, <<1, 2>>, <<0, 2>>)
D_Far     == DateStr(2027, <<0, 1>>, <<0, 5>>)
D_BadDay  == DateStr(2026, <<1, 1>>, <<3, 1>>)
\* "2026-12x01"
D_BadText == Year4(2026) \o <<Dash, Digit(1), Digit(2), LetterX, Digit(0), Digit(1)>>
\* "2026-12- 1", which strptime reads as the first of December
D_1201b   == Year4(2026) \o <<Dash, Digit(1), Digit(2), Dash, Blank, Digit(1)>>

\* the dates a stay can be booked for on the day of the model
StayDates == {D_1129, D_1130, D_1201u, D_1202}

DateStrings == StayDates \cup {D_1201, D_1201b, D_Past, D_Far, D_BadDay, D_BadText}

RoomTypeIds == {101, 102, 999}

\* the parties <<adults, children>> of the requests
Parties == {<<1, 0>>, <<0, 0>>, <<3, 0>>, <<1, 2>>}

\* The addresses of the booking requests are as EmailStr hands them to the
\* handler: well-formed, the domain in lower case.
\* "An@x.io"
E_Ann   == <<65, 110, 64, 120, 46, 105, 111>>
\* "an@x.io"
E_ann   == <<97, 110, 64, 120, 46, 105, 111>>
\* "aN@x.io"
E_aNN   == <<97, 78, 64, 120, 46, 105, 111>>
\* "bo@x.io"
E_bob   == <<98, 111, 64, 120, 46, 105, 111>>
\* "AN@X.IO", an address as typed into the path of the lookup
E_ANN   == <<65, 78, 64, 88, 46, 73, 79>>
\* the Greek letters alpha and sigma before "@x.io", in capitals
E_AS    == <<913, 931, 64, 120, 46, 105, 111>>
\* the same address in small letters, the sigma as it is written inside a word
E_as    == <<945, 963, 64, 120, 46, 105, 111>>

Request(t, ci, co, p) ==
    [room_type_id |-> t, check_in_date |-> ci, check_out_date |-> co,
     adults |-> p[1], children |-> p[2], user_name |-> "ann", email |-> E_ann]

\* the request of another guest
RequestBy(t, ci, co, p, email) == [Request(t, ci, co, p) EXCEPT !.email = email]

\* the pairs of stay dates with check-out after check-in
StayPairs ==
    {p \in StayDates \X StayDates : Strptime(p[1]).ord < Strptime(p[2]).ord}

\* Bodies of POST /bookings: every stay for the two room types of the
\* catalog, and around one stay every other party, an unknown room type and
\* every other date in either place
BookingRequests ==
    {Request(t, p[1], p[2], <<1, 0>>) : t \in {101, 102}, p \in StayPairs}
    \cup {Request(101, D_1129, D_1130, p) : p \in Parties}
    \cup {Request(t, D_1129, D_1130, <<1, 0>>) : t \in RoomTypeIds}
    \cup {Request(101, ci, D_1130, <<1, 0>>) : ci \in DateStrings}
    \cup {Request(101, D_1129, co, <<1, 0>>) : co \in DateStrings}

\* the ids of DELETE /bookings/{booking_id}
BookingIdsIn == 1..NumTasks

----------------------------------------------------------------------------
(* The catalog the database holds when the server starts *)

InitialRoomTypes ==
    << [id |-> 101, name |-> "Deluxe", capacity |-> [adults |-> 2, children |-> 1],
        min_days |-> 1, max_days |-> 1, pricing |-> [total_price |-> 100],
        room_numbers |-> <<[room_no |-> 1], [room_no |-> 2]>>],
       [id |-> 102, name |-> "Single", capacity |-> [adults |-> 1, children |-> 0],
        min_days |-> 1, max_days |-> 30, pricing |-> [total_price |-> 60],
        room_numbers |-> <<[room_no |-> 3]>>] >>

----------------------------------------------------------------------------
(* Storage calls *)

\* room_types_collection.find_one({"id": id}): the first match, or None
NoDoc == [none |-> TRUE]

\* the first document of the collection at one of the positions, or None
FirstAt(coll, positions) ==
    IF positions = {} THEN NoDoc
    ELSE coll[CHOOSE i \in positions : \A j \in positions : i <= j]

find_room_type(rts, id) ==
    FirstAt(rts, {i \in 1..Len(rts) : rts[i].id = id})

find_booking(bks, id) ==
    FirstAt(bks, {i \in 1..Len(bks) : bks[i].booking_id = id})

\* bookings_collection.find({"room_no": room_no, "status": "confirmed"})
ConfirmedOn(bks, room_no) ==
    SelectSeq(bks, LAMBDA b : b.room_no = room_no /\ b.status = "confirmed")

\* the overlap condition with its first comparison turned around
Conflicts_Reversed(b, checkin_dt, checkout_dt) ==
    LET db_ci == Strptime(b.check_in_date)
        db_co == Strptime(b.check_out_date)
    IN  IF ~db_ci.ok \/ ~db_co.ok THEN FALSE
        ELSE db_ci.ord > checkout_dt /\ db_co.ord >= checkin_dt

\* the overlap condition of the two scan loops, on one stored booking
Conflicts(b, checkin_dt, checkout_dt) ==
    LET db_ci == Strptime(b.check_in_date)
        db_co == Strptime(b.check_out_date)
    IN  IF ~db_ci.ok \/ ~db_co.ok THEN FALSE
        ELSE db_ci.ord < checkout_dt /\ db_co.ord >= checkin_dt

\* the body of the loops over room_numbers: is this unit free for the range
UnitFree(bks, room_no, checkin_dt, checkout_dt) ==
    LET c == ConfirmedOn(bks, room_no)
    IN  \A i \in 1..Len(c) : ~Conflicts(c[i], checkin_dt, checkout_dt)

\* bookings_collection.find_one(sort=[("booking_id", -1)]) and new_id
MaxBookingId(bks) ==
    IF Len(bks) = 0 THEN 0
    ELSE CHOOSE m \in {bks[i].booking_id : i \in 1..Len(bks)} :
             \A i \in 1..Len(bks) : bks[i].booking_id <= m

\* new_id with the first id taken to be 0
NewId_FromZero(bks) == IF Len(bks) = 0 THEN 0 ELSE MaxBookingId(bks) + 1

NewId(bks) == IF Len(bks) = 0 THEN 1 ELSE MaxBookingId(bks) + 1

\* a collection without the unique index: no insert is refused
DuplicateKey_NoIndex(bks, record) == FALSE

\* the unique index on booking_id, created by start_db
DuplicateKey(bks, record) ==
    \E i \in 1..Len(bks) : bks[i].booking_id = record.booking_id

\* bookings_collection.find_one({"room_no", "status": "confirmed",
\*   "check_in_date": {"$lt": check_out_date},
\*   "check_out_date": {"$gte": check_in_date}}) finds a document: the filter
\* compares the stored strings with the strings of the query
overlap(bks, room_no, check_in_date, check_out_date) ==
    \E i \in 1..Len(bks) :
        /\ bks[i].room_no = room_no
        /\ bks[i].status = "confirmed"
        /\ StrLess(bks[i].check_in_date, check_out_date, 1)
        /\ ~StrLess(bks[i].check_out_date, check_in_date, 1)

----------------------------------------------------------------------------
(* A request in progress: the locals of the coroutine and where it stands *)

NoBooking == [none |-> TRUE]

NoRet == [code |-> 0, detail |-> "", booking |-> NoBooking]

NoData == [none |-> TRUE]

IdleFrame ==
    [pc |-> "idle", op |-> "none", data |-> NoData, booking_id |-> 0,
     room_data |-> NoDoc, checkin_dt |-> 0, checkout_dt |-> 0, idx |-> 0,
     selected_room |-> <<>>, record |-> NoBooking,
     rooms |-> <<>>, ri |-> 0, available_room_numbers |-> <<>>,
     clean_rooms |-> <<>>, ret |-> NoRet]

\* raise HTTPException(status_code, detail): the request ends; the frame keeps
\* the request and the response
Raise(f, status_code, detail) ==
    [IdleFrame EXCEPT !.pc = "done", !.op = f.op, !.data = f.data,
                      !.booking_id = f.booking_id,
                      !.ret = [code |-> status_code, detail |-> detail,
                               booking |-> NoBooking]]

\* return of a handler: HTTP 200 with the body
Return(f, detail, booking) ==
    [IdleFrame EXCEPT !.pc = "done", !.op = f.op, !.data = f.data,
                      !.booking_id = f.booking_id,
                      !.ret = [code |-> 200, detail |-> detail, booking |-> booking]]

\* return clean_rooms: HTTP 200 with the list of room types
ReturnRooms(f) ==
    [IdleFrame EXCEPT !.pc = "done", !.op = f.op, !.data = f.data,
                      !.ret = [code |-> 200, detail |-> "", rooms |-> f.clean_rooms]]

\* make_booking rejecting a date in the past only when both dates are
BeginBooking_PastBoth(data) ==
    LET f0 == [IdleFrame EXCEPT !.op = "make_booking", !.data = data]
        ci == parse_date(data.check_in_date)
        co == parse_date(data.check_out_date)
    IN  IF ~ci.ok \/ ~co.ok
          THEN Raise(f0, 400, "Invalid date format, use YYYY-MM-DD")
        ELSE IF ci.ord < today /\ co.ord < today
          THEN Raise(f0, 400, "Dates cannot be in the past")
        ELSE IF ci.ord > max_date \/ co.ord > max_date
          THEN Raise(f0, 400, "Dates cannot be more than 30 days ahead")
        ELSE IF co.ord <= ci.ord
          THEN Raise(f0, 400, "check_out_date must be after check_in_date")
        ELSE [f0 EXCEPT !.pc = "find_room", !.checkin_dt = ci.ord,
                        !.checkout_dt = co.ord]

\* make_booking up to its first await: parse and validate the dates
BeginBooking(data) ==
    LET f0 == [IdleFrame EXCEPT !.op = "make_booking", !.data = data]
        ci == parse_date(data.check_in_date)
        co == parse_date(data.check_out_date)
    IN  IF ~ci.ok \/ ~co.ok
          THEN Raise(f0, 400, "Invalid date format, use YYYY-MM-DD")
        ELSE IF ci.ord < today \/ co.ord < today
          THEN Raise(f0, 400, "Dates cannot be in the past")
        ELSE IF ci.ord > max_date \/ co.ord > max_date
          THEN Raise(f0, 400, "Dates cannot be more than 30 days ahead")
        ELSE IF co.ord <= ci.ord
          THEN Raise(f0, 400, "check_out_date must be after check_in_date")
        ELSE [f0 EXCEPT !.pc = "find_room", !.checkin_dt = ci.ord,
                        !.checkout_dt = co.ord]

\* cancel_booking up to its first await
BeginCancel(booking_id) ==
    [IdleFrame EXCEPT !.pc = "cancel_find", !.op = "cancel_booking",
                      !.booking_id = booking_id]

\* the same with the capacity checked before the length of the stay
FindRoomStep_CapacityFirst(f, rts) ==
    LET room_data == find_room_type(rts, f.data.room_type_id)
        stay_days == f.checkout_dt - f.checkin_dt
    IN  IF room_data = NoDoc
          THEN Raise(f, 404, "Room type not found")
        ELSE IF f.data.adults > room_data.capacity.adults
          THEN Raise(f, 400, "Max adults allowed for this room")
        ELSE IF f.data.children > room_data.capacity.children
          THEN Raise(f, 400, "Max children allowed for this room")
        ELSE IF stay_days < room_data.min_days \/ stay_days > room_data.max_days
          THEN Raise(f, 400, "You must stay between min_days - max_days days")
        ELSE IF \/ f.data.adults <= 0 \/ f.data.children < 0
                \/ Len(room_data.room_numbers) = 0
          THEN Raise(f, 400, "This room type is not available for the selected dates or capacity")
        ELSE [f EXCEPT !.pc = "available", !.room_data = room_data, !.idx = 1]

\* lines 309-324 and the entry of is_room_type_available: the room type is
\* read, stay length and capacity are checked, the scan of the units begins
FindRoomStep(f, rts) ==
    LET room_data == find_room_type(rts, f.data.room_type_id)
        stay_days == f.checkout_dt - f.checkin_dt
    IN  IF room_data = NoDoc
          THEN Raise(f, 404, "Room type not found")
        ELSE IF stay_days < room_data.min_days \/ stay_days > room_data.max_days
          THEN Raise(f, 400, "You must stay between min_days - max_days days")
        ELSE IF f.data.adults > room_data.capacity.adults
          THEN Raise(f, 400, "Max adults allowed for this room")
        ELSE IF f.data.children > room_data.capacity.children
          THEN Raise(f, 400, "Max children allowed for this room")
        ELSE IF \/ f.data.adults <= 0 \/ f.data.children < 0
                \/ Len(room_data.room_numbers) = 0
          THEN Raise(f, 400, "This room type is not available for the selected dates or capacity")
        ELSE [f EXCEPT !.pc = "available", !.room_data = room_data, !.idx = 1]

\* one turn of the loop of is_room_type_available: the confirmed bookings of
\* the unit are read and scanned
AvailableStep(f, bks) ==
    LET room_no == f.room_data.room_numbers[f.idx].room_no
    IN  IF UnitFree(bks, room_no, f.checkin_dt, f.checkout_dt)
          THEN [f EXCEPT !.pc = "select", !.idx = 1]
        ELSE IF f.idx < Len(f.room_data.room_numbers)
          THEN [f EXCEPT !.idx = f.idx + 1]
        ELSE Raise(f, 400, "This room type is not available for the selected dates or capacity")

\* not selected_room: None and the number 0 are both falsy
NotSelected(selected_room) == selected_room = <<>> \/ selected_room = <<0>>

\* one turn of the loop that selects a free room_no, and the test after it
SelectStep(f, bks) ==
    LET room_no == f.room_data.room_numbers[f.idx].room_no
    IN  IF UnitFree(bks, room_no, f.checkin_dt, f.checkout_dt)
          THEN IF NotSelected(<<room_no>>)
                 THEN Raise(f, 400, "No rooms available")
                 ELSE [f EXCEPT !.pc = "read_id", !.idx = 0,
                                !.selected_room = <<room_no>>]
        ELSE IF f.idx < Len(f.room_data.room_numbers)
          THEN [f EXCEPT !.idx = f.idx + 1]
        ELSE Raise(f, 400, "No rooms available")

\* the record priced for one night whatever the length of the stay
ReadIdStep_OneNight(f, bks) ==
    LET stay_days == f.checkout_dt - f.checkin_dt
        record == [booking_id |-> NewId(bks),
                   room_type_id |-> f.room_data.id,
                   room_name |-> f.room_data.name,
                   room_no |-> f.selected_room[1],
                   check_in_date |-> f.data.check_in_date,
                   check_out_date |-> f.data.check_out_date,
                   stay_days |-> stay_days,
                   user_name |-> f.data.user_name,
                   email |-> Lower(f.data.email),
                   adults |-> f.data.adults,
                   children |-> f.data.children,
                   status |-> "confirmed",
                   created_at |-> today,
                   total_price |-> f.room_data.pricing.total_price]
    IN  [f EXCEPT !.pc = "insert", !.record = record]

\* lines 366-387: the last booking id is read and the record is built;
\* created_at is the day of the clock
ReadIdStep(f, bks) ==
    LET stay_days == f.checkout_dt - f.checkin_dt
        record == [booking_id |-> NewId(bks),
                   room_type_id |-> f.room_data.id,
                   room_name |-> f.room_data.name,
                   room_no |-> f.selected_room[1],
                   check_in_date |-> f.data.check_in_date,
                   check_out_date |-> f.data.check_out_date,
                   stay_days |-> stay_days,
                   user_name |-> f.data.user_name,
                   email |-> Lower(f.data.email),
                   adults |-> f.data.adults,
                   children |-> f.data.children,
                   status |-> "confirmed",
                   created_at |-> today,
                   total_price |-> f.room_data.pricing.total_price * stay_days]
    IN  [f EXCEPT !.pc = "insert", !.record = record]

\* an insert that stores the record even when the index refuses it
insert_one_Unchecked(bks, record) == Append(bks, record)

\* bookings_collection.insert_one(record) under the unique index
insert_one(bks, record) ==
    IF DuplicateKey(bks, record) THEN bks ELSE Append(bks, record)

\* line 389-393: the insert and the response; a DuplicateKeyError is not
\* caught and ends the request with HTTP 500
InsertFrame(f, bks) ==
    IF DuplicateKey(bks, f.record)
      THEN Raise(f, 500, "DuplicateKeyError")
      ELSE Return(f, "Room Booked Successfully!", f.record)

\* an update that sets a cancelled booking back to confirmed
update_status_Toggle(bks, id, s) ==
    [i \in 1..Len(bks) |->
        IF bks[i].booking_id = id
          THEN [bks[i] EXCEPT !.status =
                   IF bks[i].status = "cancelled" THEN "confirmed" ELSE s]
          ELSE bks[i]]

\* bookings_collection.update_one({"booking_id": id}, {"$set": {"status": s}})
update_status(bks, id, s) ==
    [i \in 1..Len(bks) |->
        IF bks[i].booking_id = id /\ (\A j \in 1..(i - 1) : bks[j].booking_id # id)
          THEN [bks[i] EXCEPT !.status = s] ELSE bks[i]]

\* cancel_booking, line 426-428
CancelFindStep(f, bks) ==
    IF find_booking(bks, f.booking_id) = NoDoc
      THEN Raise(f, 404, "Booking not found")
      ELSE [f EXCEPT !.pc = "cancel_update"]

\* cancel_booking, line 429-431
CancelUpdateFrame(f) == Return(f, "Booking cancelled successfully", NoBooking)

\* the capacity filter of available_rooms
fits_NoFilter(room, q) == TRUE

fits(room, q) ==
    /\ ~(room.capacity.adults < q.adults)
    /\ ~(room.capacity.children < q.children)

\* the query with the order of the dates checked before the other rules
BeginQuery_RangeFirst(q) ==
    LET f0 == [IdleFrame EXCEPT !.op = "available_rooms", !.data = q]
        ci == Strptime(q.check_in_date)
        co == Strptime(q.check_out_date)
    IN  IF ~ci.ok \/ ~co.ok
          THEN Raise(f0, 400, "Date must be in YYYY-MM-DD format")
        ELSE IF co.ord <= ci.ord
          THEN Raise(f0, 400, "check_out_date must be after check_in_date")
        ELSE IF ci.ord < today \/ co.ord < today
          THEN Raise(f0, 400, "Dates cannot be in the past")
        ELSE IF ci.ord > max_date \/ co.ord > max_date
          THEN Raise(f0, 400, "Dates cannot be more than 30 days ahead")
        ELSE IF q.adults <= 0
          THEN Raise(f0, 400, "Adults must be at least 1")
        ELSE IF q.children < 0
          THEN Raise(f0, 400, "Children count cannot be negative")
        ELSE [f0 EXCEPT !.pc = "query_fetch"]

\* available_rooms up to its first await, lines 226-252: the dates and the
\* party are validated
BeginQuery(q) ==
    LET f0 == [IdleFrame EXCEPT !.op = "available_rooms", !.data = q]
        ci == Strptime(q.check_in_date)
        co == Strptime(q.check_out_date)
    IN  IF ~ci.ok \/ ~co.ok
          THEN Raise(f0, 400, "Date must be in YYYY-MM-DD format")
        ELSE IF ci.ord < today \/ co.ord < today
          THEN Raise(f0, 400, "Dates cannot be in the past")
        ELSE IF ci.ord > max_date \/ co.ord > max_date
          THEN Raise(f0, 400, "Dates cannot be more than 30 days ahead")
        ELSE IF co.ord <= ci.ord
          THEN Raise(f0, 400, "check_out_date must be after check_in_date")
        ELSE IF q.adults <= 0
          THEN Raise(f0, 400, "Adults must be at least 1")
        ELSE IF q.children < 0
          THEN Raise(f0, 400, "Children count cannot be negative")
        ELSE [f0 EXCEPT !.pc = "query_fetch"]

\* The loop over the fetched room types goes on from the room at position
\* from to the next find_one: room types that do not hold the party and room
\* types without units are passed without an await.  After the last room
\* type the handler returns.
QuerySeek(f, from) ==
    LET next == {r \in from..Len(f.rooms) :
                    fits(f.rooms[r], f.data) /\ Len(f.rooms[r].room_numbers) > 0}
    IN  IF next = {} THEN ReturnRooms(f)
        ELSE [f EXCEPT !.pc = "query_unit",
                       !.ri = CHOOSE r \in next : \A o \in next : r <= o,
                       !.idx = 1, !.available_room_numbers = <<>>]

\* line 252-254: the cursor fetches the room types of the catalog
QueryFetchStep(f, rts) == QuerySeek([f EXCEPT !.rooms = rts], 1)

\* line 263-282: the find_one for one unit; after the last unit of the room
\* type, the room type is listed when a unit of it is kept
QueryUnitStep(f, bks) ==
    LET room == f.rooms[f.ri]
        rn == room.room_numbers[f.idx]
        kept == IF overlap(bks, rn.room_no, f.data.check_in_date,
                           f.data.check_out_date)
                THEN f.available_room_numbers
                ELSE Append(f.available_room_numbers, rn)
    IN  IF f.idx < Len(room.room_numbers)
          THEN [f EXCEPT !.idx = f.idx + 1, !.available_room_numbers = kept]
        ELSE IF kept = <<>>
          THEN QuerySeek(f, f.ri + 1)
        ELSE QuerySeek([f EXCEPT !.clean_rooms =
                           Append(f.clean_rooms,
                                  [room EXCEPT !.room_numbers = kept])],
                       f.ri + 1)

\* One step of a request on the ledger: from one await to the next.  The
\* result is the frame and the booking collection after the step.
StepOf(f, bks, rts) ==
    CASE f.pc = "find_room"     -> [f |-> FindRoomStep(f, rts), bks |-> bks]
      [] f.pc = "available"     -> [f |-> AvailableStep(f, bks), bks |-> bks]
      [] f.pc = "select"        -> [f |-> SelectStep(f, bks), bks |-> bks]
      [] f.pc = "read_id"       -> [f |-> ReadIdStep(f, bks), bks |-> bks]
      [] f.pc = "insert"        -> [f |-> InsertFrame(f, bks),
                                    bks |-> insert_one(bks, f.record)]
      [] f.pc = "cancel_find"   -> [f |-> CancelFindStep(f, bks), bks |-> bks]
      [] f.pc = "cancel_update" -> [f |-> CancelUpdateFrame(f),
                                    bks |-> update_status(bks, f.booking_id, "cancelled")]
      [] f.pc = "query_fetch"   -> [f |-> QueryFetchStep(f, rts), bks |-> bks]
      [] f.pc = "query_unit"    -> [f |-> QueryUnitStep(f, bks), bks |-> bks]
      [] OTHER                  -> [f |-> f, bks |-> bks]

\* A request run from its start to its response with no other request in
\* between
RECURSIVE RunToEnd(_, _, _)
RunToEnd(f, bks, rts) ==
    IF f.pc \in {"done", "idle"} THEN [f |-> f, bks |-> bks]
    ELSE LET n == StepOf(f, bks, rts) IN RunToEnd(n.f, n.bks, rts)

make_booking(bks, rts, data) == RunToEnd(BeginBooking(data), bks, rts)

cancel_booking(bks, rts, booking_id) == RunToEnd(BeginCancel(booking_id), bks, rts)

\* the response of available_rooms served with no other request in between
available_rooms(bks, rts, q) == RunToEnd(BeginQuery(q), bks, rts).f.ret

\* bookings_collection.find({"email": email.lower()}), 404 when it is empty
get_bookings_by_email(bks, email) ==
    LET Mine(b) == b.email = Lower(email)
        found == SelectSeq(bks, Mine)
    IN  IF found = <<>>
        THEN [code |-> 404, detail |-> "No bookings found for this email",
              bookings |-> <<>>]
        ELSE [code |-> 200, detail |-> "", bookings |-> found]

----------------------------------------------------------------------------
(* The requests as coroutines.  Each task is the coroutine of one request;  *)
(* a step of a task runs its handler from one await to the next, and the    *)
(* steps of the tasks interleave.  resp is the response sent last.          *)

Tasks == 1..NumTasks

\* the frame of a task whose request has been answered
DoneFrame == [IdleFrame EXCEPT !.pc = "done"]

\* the response of a request that has ended: the handler, its input and
\* what it answered
ResponseOf(f) ==
    [op |-> f.op,
     arg |-> IF f.op = "cancel_booking" THEN f.booking_id ELSE f.data,
     ret |-> f.ret]

Init ==
    /\ bookings = <<>>
    /\ room_types = InitialRoomTypes
    /\ resp = [op |-> "none", arg |-> 0, ret |-> NoRet]
    /\ tasks = [t \in 1..NumTasks |-> IdleFrame]
    /\ today = Today1129

\* the request of task t has not arrived yet
Free(t) == tasks[t].pc = "idle"

\* the requests are numbered in the order they arrive
Arrives(t) == Free(t) /\ \A u \in 1..(t - 1) : ~Free(u)

\* task t goes on to frame f; when f has ended, its response is sent
Moves(t, f) ==
    IF f.pc = "done"
    THEN tasks' = [tasks EXCEPT ![t] = DoneFrame] /\ resp' = ResponseOf(f)
    ELSE tasks' = [tasks EXCEPT ![t] = f] /\ resp' = resp

StartBooking(t, data) ==
    /\ Arrives(t)
    /\ Moves(t, BeginBooking(data))
    /\ UNCHANGED <<bookings, room_types, today>>

StartCancel(t, booking_id) ==
    /\ Arrives(t)
    /\ Moves(t, BeginCancel(booking_id))
    /\ UNCHANGED <<bookings, room_types, today>>

FindRoom(t) ==
    /\ tasks[t].pc = "find_room"
    /\ Moves(t, FindRoomStep(tasks[t], room_types))
    /\ UNCHANGED <<bookings, room_types, today>>

Available(t) ==
    /\ tasks[t].pc = "available"
    /\ Moves(t, AvailableStep(tasks[t], bookings))
    /\ UNCHANGED <<bookings, room_types, today>>

Select(t) ==
    /\ tasks[t].pc = "select"
    /\ Moves(t, SelectStep(tasks[t], bookings))
    /\ UNCHANGED <<bookings, room_types, today>>

ReadId(t) ==
    /\ tasks[t].pc = "read_id"
    /\ Moves(t, ReadIdStep(tasks[t], bookings))
    /\ UNCHANGED <<bookings, room_types, today>>

Insert(t) ==
    /\ tasks[t].pc = "insert"
    /\ bookings' = insert_one(bookings, tasks[t].record)
    /\ Moves(t, InsertFrame(tasks[t], bookings))
    /\ UNCHANGED <<room_types, today>>

CancelFind(t) ==
    /\ tasks[t].pc = "cancel_find"
    /\ Moves(t, CancelFindStep(tasks[t], bookings))
    /\ UNCHANGED <<bookings, room_types, today>>

\* a cancellation that removes the record of the booking
CancelUpdate_Delete(t) ==
    /\ tasks[t].pc = "cancel_update"
    /\ bookings' = SelectSeq(bookings,
                              LAMBDA b : b.booking_id # tasks[t].booking_id)
    /\ Moves(t, CancelUpdateFrame(tasks[t]))
    /\ UNCHANGED <<room_types, today>>

CancelUpdate(t) ==
    /\ tasks[t].pc = "cancel_update"
    /\ bookings' = update_status(bookings, tasks[t].booking_id, "cancelled")
    /\ Moves(t, CancelUpdateFrame(tasks[t]))
    /\ UNCHANGED <<room_types, today>>

\* the query parameters; FastAPI answers 422 before the handler runs unless
\* adults >= 1 and children >= 0
Query(ci, co, p) ==
    [check_in_date |-> ci, check_out_date |-> co, adults |-> p[1], children |-> p[2]]

StartQuery(t, q) ==
    /\ Arrives(t)
    /\ Moves(t, BeginQuery(q))
    /\ UNCHANGED <<bookings, room_types, today>>

QueryFetch(t) ==
    /\ tasks[t].pc = "query_fetch"
    /\ Moves(t, QueryFetchStep(tasks[t], room_types))
    /\ UNCHANGED <<bookings, room_types, today>>

QueryUnit(t) ==
    /\ tasks[t].pc = "query_unit"
    /\ Moves(t, QueryUnitStep(tasks[t], bookings))
    /\ UNCHANGED <<bookings, room_types, today>>

\* get_bookings_by_email has one await, the fetch of its cursor
GetBookingsByEmail(email) ==
    /\ resp' = [op |-> "get_bookings_by_email", arg |-> email,
                ret |-> get_bookings_by_email(bookings, email)]
    /\ UNCHANGED <<bookings, room_types, tasks, today>>

----------------------------------------------------------------------------
(* Bookings and cancellations *)

\* the bodies of the booking requests that arrive
ConcRequests ==
    {Request(t, D_1129, D_1130, <<1, 0>>) : t \in {101, 102}}
    \cup {Request(102, D_1201u, D_1202, <<1, 0>>),
          Request(101, D_Past, D_1130, <<1, 0>>), Request(999, D_1129, D_1130, <<1, 0>>)}

\* the booking_id of the cancellations that arrive
CancelIdsIn == {1, 2}

Next ==
    \E t \in Tasks :
        \/ \E data \in ConcRequests : StartBooking(t, data)
        \/ \E booking_id \in CancelIdsIn : StartCancel(t, booking_id)
        \/ FindRoom(t)
        \/ Available(t)
        \/ Select(t)
        \/ ReadId(t)
        \/ Insert(t)
        \/ CancelFind(t)
        \/ CancelUpdate(t)

Spec == Init /\ [][Next]_vars

----------------------------------------------------------------------------
(* The date rules and the stages of both handlers, on every pair of the     *)
(* date strings of GuardDates and on two days of the clock                  *)

Todays == {Today1129, Today1129 + 1}

GuardDates == {D_BadText, D_Far, D_1129, D_1130}

GuardRequests ==
    {Request(101, ci, co, <<3, 0>>) : ci \in GuardDates, co \in GuardDates}
    \cup {RequestBy(999, D_1129, D_1130, <<3, 0>>, E_bob),
          Request(101, D_1130, D_1202, <<3, 0>>),
          Request(101, D_1130, D_1201b, <<1, 0>>)}

GuardQueries ==
    {Query(ci, co, <<3, 0>>) : ci \in GuardDates, co \in GuardDates}
    \cup {Query(D_1130, D_1201b, <<2, 1>>)}

InitGuard ==
    /\ bookings = <<>>
    /\ room_types = InitialRoomTypes
    /\ resp = [op |-> "none", arg |-> 0, ret |-> NoRet]
    /\ tasks = [t \in 1..NumTasks |-> IdleFrame]
    /\ today \in Todays

NextGuard ==
    \E t \in Tasks :
        \/ \E data \in GuardRequests : StartBooking(t, data)
        \/ \E q \in GuardQueries : StartQuery(t, q)
        \/ FindRoom(t)
        \/ Available(t)
        \/ Select(t)
        \/ ReadId(t)
        \/ Insert(t)
        \/ QueryFetch(t)
        \/ QueryUnit(t)

SpecGuard == InitGuard /\ [][NextGuard]_vars

----------------------------------------------------------------------------
(* Bookings, cancellations and the availability query *)

QueryRequests ==
    {RequestBy(101, D_1129, D_1130, <<2, 1>>, E_aNN),
     RequestBy(101, D_1129, D_1130, <<3, 0>>, E_Ann),
     RequestBy(102, D_1201u, D_1202, <<1, 0>>, E_bob),
     RequestBy(102, D_1129, D_1202, <<1, 0>>, E_bob)}

\* the queries of GET /room-types/available
AvailQueries ==
    {Query(r[1], r[2], p) :
        r \in {<<D_1129, D_1130>>, <<D_1130, D_1201>>, <<D_1129, D_1202>>,
               <<D_1201u, D_1202>>, <<D_1201b, D_1202>>, <<D_Past, D_1130>>},
        p \in {<<1, 0>>, <<2, 1>>, <<3, 0>>}}

\* the queries that arrive
QueriesIn == {Query(D_1129, D_1130, <<2, 1>>)}

NextQuery ==
    \E t \in Tasks :
        \/ \E data \in QueryRequests : StartBooking(t, data)
        \/ \E booking_id \in CancelIdsIn : StartCancel(t, booking_id)
        \/ \E q \in QueriesIn : StartQuery(t, q)
        \/ FindRoom(t)
        \/ Available(t)
        \/ Select(t)
        \/ ReadId(t)
        \/ Insert(t)
        \/ CancelFind(t)
        \/ CancelUpdate(t)
        \/ QueryFetch(t)
        \/ QueryUnit(t)

SpecQuery == Init /\ [][NextQuery]_vars

----------------------------------------------------------------------------
(* Bookings and the lookup by email *)

\* the bodies of the booking requests that arrive
LookupRequests ==
    {RequestBy(101, D_1129, D_1130, <<2, 1>>, E_aNN),
     RequestBy(102, D_1201u, D_1202, <<1, 0>>, E_bob),
     RequestBy(102, D_1129, D_1130, <<1, 0>>, E_AS)}

EmailsIn == {E_Ann, E_ANN, E_bob, E_AS, E_as}

NextLookup ==
    \/ \E email \in EmailsIn : GetBookingsByEmail(email)
    \/ \E t \in Tasks :
        \/ \E data \in LookupRequests : StartBooking(t, data)
        \/ FindRoom(t)
        \/ Available(t)
        \/ Select(t)
        \/ ReadId(t)
        \/ Insert(t)

SpecLookup == Init /\ [][NextLookup]_vars

----------------------------------------------------------------------------
(* The admin requests on the catalog: add_room, create_room_type (both POST  *)
(* /room-types), update_room_type and delete_room_type, as                   *)
(* coroutines that interleave at their awaits, with booking requests         *)

\* the bodies of the admin requests: a new room type, and room type 101 with
\* a new name and price
Body103 ==
    [id |-> 103, name |-> "Suite", capacity |-> [adults |-> 2, children |-> 1],
     min_days |-> 1, max_days |-> 2, pricing |-> [total_price |-> 150],
     room_numbers |-> <<[room_no |-> 4]>>]

Body101 ==
    [id |-> 101, name |-> "Deluxe Plus", capacity |-> [adults |-> 2, children |-> 1],
     min_days |-> 1, max_days |-> 1, pricing |-> [total_price |-> 120],
     room_numbers |-> <<[room_no |-> 1], [room_no |-> 2]>>]

RoomBodies == {Body103, Body101}

\* PUT /room-types/{room_type_id} with its body
Updates ==
    {[room_type_id |-> 101, updated |-> Body101],
     [room_type_id |-> 102, updated |-> Body101],
     [room_type_id |-> 101, updated |-> Body103]}

DeletedIds == {101}

\* the position of the first document with the id, 0 when there is none
PositionOf(rts, id) ==
    IF \E i \in 1..Len(rts) : rts[i].id = id
    THEN CHOOSE i \in 1..Len(rts) :
            rts[i].id = id /\ \A j \in 1..(i - 1) : rts[j].id # id
    ELSE 0

\* a catalog without its unique index
DuplicateId_NoIndex(rts, doc, skip) == FALSE

\* the unique index on id, created by start_db: another document than the
\* one at position skip holds the id of doc
DuplicateId(rts, doc, skip) ==
    \E i \in 1..Len(rts) : i # skip /\ rts[i].id = doc.id

\* room_types_collection.insert_one(doc) under the unique index
insert_room_type(rts, doc) ==
    IF DuplicateId(rts, doc, 0) THEN rts ELSE Append(rts, doc)

\* room_types_collection.update_one({"id": id}, {"$set": updated}): every
\* field of the first match is set, unless the new id breaks the unique index
update_one(rts, id, updated) ==
    LET p == PositionOf(rts, id)
    IN  IF p = 0 \/ DuplicateId(rts, updated, p) THEN rts
        ELSE [rts EXCEPT ![p] = updated]

\* room_types_collection.delete_one({"id": id}): the first match is removed
delete_one(rts, id) ==
    LET p == PositionOf(rts, id)
    IN  IF p = 0 THEN rts
        ELSE [i \in 1..(Len(rts) - 1) |-> IF i < p THEN rts[i] ELSE rts[i + 1]]

\* add_room, line 448-449
StartAddRoom(t, room_data) ==
    /\ Arrives(t)
    /\ Moves(t, [IdleFrame EXCEPT !.pc = "add_find", !.op = "add_room",
                                  !.data = room_data])
    /\ UNCHANGED <<bookings, room_types, today>>

\* add_room, line 450-452
AddRoomFind(t) ==
    /\ tasks[t].pc = "add_find"
    /\ Moves(t, IF find_room_type(room_types, tasks[t].data.id) # NoDoc
                THEN Raise(tasks[t], 400, "Room ID already exists")
                ELSE [tasks[t] EXCEPT !.pc = "add_insert"])
    /\ UNCHANGED <<bookings, room_types, today>>

\* add_room, line 453-454; a DuplicateKeyError is not caught: HTTP 500
AddRoomInsert(t) ==
    /\ tasks[t].pc = "add_insert"
    /\ room_types' = insert_room_type(room_types, tasks[t].data)
    /\ Moves(t, IF DuplicateId(room_types, tasks[t].data, 0)
                THEN Raise(tasks[t], 500, "DuplicateKeyError")
                ELSE Return(tasks[t], "", tasks[t].data))
    /\ UNCHANGED <<bookings, today>>

\* create_room_type, line 469-470
StartCreateRoomType(t, room_data) ==
    /\ Arrives(t)
    /\ Moves(t, [IdleFrame EXCEPT !.pc = "create_find", !.op = "create_room_type",
                                  !.data = room_data])
    /\ UNCHANGED <<bookings, room_types, today>>

\* create_room_type, line 471-473
CreateRoomTypeFind(t) ==
    /\ tasks[t].pc = "create_find"
    /\ Moves(t, IF find_room_type(room_types, tasks[t].data.id) # NoDoc
                THEN Raise(tasks[t], 400, "Room type with this ID already exists")
                ELSE [tasks[t] EXCEPT !.pc = "create_insert"])
    /\ UNCHANGED <<bookings, room_types, today>>

\* create_room_type, line 474-475; a DuplicateKeyError is not caught: HTTP 500
CreateRoomTypeInsert(t) ==
    /\ tasks[t].pc = "create_insert"
    /\ room_types' = insert_room_type(room_types, tasks[t].data)
    /\ Moves(t, IF DuplicateId(room_types, tasks[t].data, 0)
                THEN Raise(tasks[t], 500, "DuplicateKeyError")
                ELSE Return(tasks[t], "", tasks[t].data))
    /\ UNCHANGED <<bookings, today>>

StartUpdate(t, u) ==
    /\ Arrives(t)
    /\ Moves(t, [IdleFrame EXCEPT !.pc = "update_find", !.op = "update_room_type",
                                  !.data = u])
    /\ UNCHANGED <<bookings, room_types, today>>

\* update_room_type, line 479-481
UpdateFind(t) ==
    /\ tasks[t].pc = "update_find"
    /\ Moves(t, IF find_room_type(room_types, tasks[t].data.room_type_id) = NoDoc
                THEN Raise(tasks[t], 404, "Room type not found")
                ELSE [tasks[t] EXCEPT !.pc = "update_write"])
    /\ UNCHANGED <<bookings, room_types, today>>

\* an update that also renames the room in the bookings of the room type
UpdateWrite_Cascade(t) ==
    /\ tasks[t].pc = "update_write"
    /\ room_types' = update_one(room_types, tasks[t].data.room_type_id,
                                tasks[t].data.updated)
    /\ bookings' = [i \in 1..Len(bookings) |->
                      IF bookings[i].room_type_id = tasks[t].data.room_type_id
                      THEN [bookings[i] EXCEPT !.room_name = tasks[t].data.updated.name]
                      ELSE bookings[i]]
    /\ Moves(t, Return(tasks[t], "", tasks[t].data.updated))
    /\ UNCHANGED <<today>>

\* update_room_type, line 482-483; a DuplicateKeyError is not caught
UpdateWrite(t) ==
    /\ tasks[t].pc = "update_write"
    /\ room_types' = update_one(room_types, tasks[t].data.room_type_id,
                                tasks[t].data.updated)
    /\ Moves(t, IF /\ PositionOf(room_types, tasks[t].data.room_type_id) # 0
                   /\ DuplicateId(room_types, tasks[t].data.updated,
                                  PositionOf(room_types, tasks[t].data.room_type_id))
                THEN Raise(tasks[t], 500, "DuplicateKeyError")
                ELSE Return(tasks[t], "", tasks[t].data.updated))
    /\ UNCHANGED <<bookings, today>>

StartDelete(t, room_type_id) ==
    /\ Arrives(t)
    /\ Moves(t, [IdleFrame EXCEPT !.pc = "delete_find", !.op = "delete_room_type",
                                  !.data = [room_type_id |-> room_type_id]])
    /\ UNCHANGED <<bookings, room_types, today>>

\* delete_room_type, line 487-489
DeleteFind(t) ==
    /\ tasks[t].pc = "delete_find"
    /\ Moves(t, IF find_room_type(room_types, tasks[t].data.room_type_id) = NoDoc
                THEN Raise(tasks[t], 404, "Room type not found")
                ELSE [tasks[t] EXCEPT !.pc = "delete_write"])
    /\ UNCHANGED <<bookings, room_types, today>>

\* delete_room_type, line 490-491
DeleteWrite(t) ==
    /\ tasks[t].pc = "delete_write"
    /\ room_types' = delete_one(room_types, tasks[t].data.room_type_id)
    /\ Moves(t, Return(tasks[t], "Room type deleted successfully", NoBooking))
    /\ UNCHANGED <<bookings, today>>

\* the bodies of the booking requests that arrive among the admin requests
AdminRequests == {Request(101, D_1129, D_1130, <<1, 0>>)}

NextAdmin ==
    \E t \in Tasks :
        \/ \E data \in AdminRequests : StartBooking(t, data)
        \/ FindRoom(t)
        \/ Available(t)
        \/ Select(t)
        \/ ReadId(t)
        \/ Insert(t)
        \/ \E room_data \in RoomBodies : StartAddRoom(t, room_data)
        \/ AddRoomFind(t)
        \/ AddRoomInsert(t)
        \/ \E room_data \in RoomBodies : StartCreateRoomType(t, room_data)
        \/ CreateRoomTypeFind(t)
        \/ CreateRoomTypeInsert(t)
        \/ \E u \in Updates : StartUpdate(t, u)
        \/ UpdateFind(t)
        \/ UpdateWrite(t)
        \/ \E room_type_id \in DeletedIds : StartDelete(t, room_type_id)
        \/ DeleteFind(t)
        \/ DeleteWrite(t)

SpecAdmin == Init /\ [][NextAdmin]_vars

----------------------------------------------------------------------------
(* Bookings and cancellations on a catalog with a room type whose second    *)
(* unit has the number 0                                                    *)

Room100 ==
    [id |-> 100, name |-> "Annex", capacity |-> [adults |-> 2, children |-> 1],
     min_days |-> 1, max_days |-> 30, pricing |-> [total_price |-> 80],
     room_numbers |-> <<[room_no |-> 5], [room_no |-> 0]>>]

ZeroRequests ==
    {Request(100, D_1129, D_1130, <<1, 0>>), Request(100, D_1129, D_1202, <<1, 0>>),
     Request(102, D_1129, D_1130, <<1, 0>>)}

InitZero ==
    /\ bookings = <<>>
    /\ room_types = Append(InitialRoomTypes, Room100)
    /\ resp = [op |-> "none", arg |-> 0, ret |-> NoRet]
    /\ tasks = [t \in 1..NumTasks |-> IdleFrame]
    /\ today = Today1129

NextZero ==
    \E t \in Tasks :
        \/ \E data \in ZeroRequests : StartBooking(t, data)
        \/ \E booking_id \in BookingIdsIn : StartCancel(t, booking_id)
        \/ FindRoom(t)
        \/ Available(t)
        \/ Select(t)
        \/ ReadId(t)
        \/ Insert(t)
        \/ CancelFind(t)
        \/ CancelUpdate(t)

SpecZero == InitZero /\ [][NextZero]_vars

----------------------------------------------------------------------------
(* Properties *)

Ord(date_str) == Strptime(date_str).ord

Confirmed(b) == b.status = "confirmed"

\* the half-open rule of two date ranges [s1, e1) and [s2, e2)
Overlaps(s1, e1, s2, e2) == s1 < e2 /\ s2 < e1

\* bookings a and b hold overlapping [check_in, check_out) ranges
RangesOverlap(a, b) ==
    Overlaps(Ord(a.check_in_date), Ord(a.check_out_date),
             Ord(b.check_in_date), Ord(b.check_out_date))

\* no two confirmed bookings of one unit in bks overlap
NoDoubleBooking(bks) ==
    \A i, j \in 1..Len(bks) :
        (i < j /\ Confirmed(bks[i]) /\ Confirmed(bks[j])
               /\ bks[i].room_no = bks[j].room_no)
            => ~RangesOverlap(bks[i], bks[j])

\* the step ends the request of task t: its response is resp'
Ends(t) == tasks[t].pc # "done" /\ tasks'[t].pc = "done"

\* no request is in progress: each one that has arrived has been answered
Quiet == \A t \in Tasks : tasks[t].pc \in {"idle", "done"}

\* C1: when no request is in progress and no two confirmed bookings of the
\* same room_no overlap, a make_booking or a cancel_booking served with no
\* other request in between leaves such a ledger.  The empty ledger is one,
\* so requests served one after another never reach a double booking.
C1_NoDoubleBooking ==
    (Quiet /\ NoDoubleBooking(bookings)) =>
        /\ \A data \in BookingRequests :
              NoDoubleBooking(make_booking(bookings, room_types, data).bks)
        /\ \A id \in BookingIdsIn :
              NoDoubleBooking(cancel_booking(bookings, room_types, id).bks)

\* the request just answered has committed a booking on a unit that already
\* held a confirmed booking, in a ledger without double booking, while no
\* other request was in progress
C1_Witness ==
    /\ Quiet
    /\ resp.op = "make_booking" /\ resp.ret.code = 200
    /\ NoDoubleBooking(bookings)
    /\ \E i, j \in 1..Len(bookings) :
          /\ i < j /\ Confirmed(bookings[i]) /\ Confirmed(bookings[j])
          /\ bookings[i].room_no = bookings[j].room_no
          /\ bookings[j] = resp.ret.booking

\* C2: in every interleaving, a confirmed booking is inserted only if, at the
\* instant of the insert, no confirmed booking of the same unit overlaps its
\* range: the overlap check and the insert act as one atomic step.
C2_AtomicCheckAndInsert ==
    [][\A t \in Tasks :
          (Insert(t) /\ Len(bookings') = Len(bookings) + 1)
              => \A i \in 1..Len(bookings) :
                     (Confirmed(bookings[i])
                        /\ bookings[i].room_no = tasks[t].record.room_no)
                         => ~RangesOverlap(bookings[i], tasks[t].record)]_vars

\* no two records of bks carry the same booking_id
UniqueBookingIds(bks) ==
    \A i, j \in 1..Len(bks) : i # j => bks[i].booking_id # bks[j].booking_id

\* C3: in every interleaving, no two booking records carry the same
\* booking_id, and no two successful make_booking responses do: the id of a
\* successful response is in no record before the step that answers, and it
\* is the id of the record that this step has stored.
C3_UniqueBookingIds ==
    [][ /\ UniqueBookingIds(bookings')
        /\ \A t \in Tasks :
              (Ends(t) /\ resp'.op = "make_booking" /\ resp'.ret.code = 200) =>
                  /\ \A i \in 1..Len(bookings) :
                        bookings[i].booking_id # resp'.ret.booking.booking_id
                  /\ bookings' = Append(bookings, resp'.ret.booking) ]_vars

\* two concurrent requests have read the same last id: one has committed its
\* booking, the insert of the other was refused by the unique index
C3_Witness ==
    /\ resp.op = "make_booking" /\ resp.ret.code = 500
    /\ Len(bookings) = 1
    /\ \E t, u \in Tasks : t # u /\ tasks[t].pc = "done" /\ tasks[u].pc = "done"

\* the request passes the date rules, names a room type of the catalog, and
\* its stay length and party are within the bounds of that room type
ValidRequest(data) ==
    /\ BeginBooking(data).pc = "find_room"
    /\ FindRoomStep(BeginBooking(data), room_types).pc = "available"

UnitsOf(room_type_id) ==
    LET rt == find_room_type(room_types, room_type_id)
    IN  [i \in 1..Len(rt.room_numbers) |-> rt.room_numbers[i].room_no]

\* no confirmed booking of the unit overlaps [check_in, check_out)
HalfOpenFree(bks, room_no, data) ==
    \A i \in 1..Len(bks) :
        (Confirmed(bks[i]) /\ bks[i].room_no = room_no)
            => ~Overlaps(Ord(bks[i].check_in_date), Ord(bks[i].check_out_date),
                         Ord(data.check_in_date), Ord(data.check_out_date))

\* a confirmed booking of the unit ends on the day the request begins
EndsAtCheckIn(bks, room_no, data) ==
    \E i \in 1..Len(bks) :
        /\ Confirmed(bks[i]) /\ bks[i].room_no = room_no
        /\ Ord(bks[i].check_out_date) = Ord(data.check_in_date)

\* C4: back-to-back stays are allowed: when no request is in progress, a
\* valid request whose check_in is the check_out day of a confirmed booking
\* of a unit that no confirmed booking overlaps, served with no other request
\* in between, succeeds on that unit (or on a unit listed before it that is
\* free as well).
C4_BackToBackAllowed ==
    \A data \in BookingRequests :
        (/\ Quiet
         /\ ValidRequest(data)
         /\ \E k \in 1..Len(UnitsOf(data.room_type_id)) :
               /\ EndsAtCheckIn(bookings, UnitsOf(data.room_type_id)[k], data)
               /\ HalfOpenFree(bookings, UnitsOf(data.room_type_id)[k], data))
            => LET ret == make_booking(bookings, room_types, data).f.ret
               IN  /\ ret.code = 200
                   /\ \E k \in 1..Len(UnitsOf(data.room_type_id)) :
                         /\ ret.booking.room_no = UnitsOf(data.room_type_id)[k]
                         /\ HalfOpenFree(bookings, UnitsOf(data.room_type_id)[k], data)
                         /\ \A m \in 1..(k - 1) :
                               ~HalfOpenFree(bookings, UnitsOf(data.room_type_id)[m], data)

\* C5: when no request is in progress, directly after the successful
\* cancellation of a confirmed booking b, a valid request for b's room type and a range that overlaps b's range and
\* no confirmed booking of b's unit succeeds and is given b's room_no (both
\* requests served with no other request in between).
C5_CancelFreesUnit ==
    \A id \in BookingIdsIn : \A data \in BookingRequests :
        LET b == find_booking(bookings, id)
            c == cancel_booking(bookings, room_types, id)
        IN  (/\ Quiet
             /\ b # NoDoc
             /\ Confirmed(b)
             /\ c.f.ret.code = 200
             /\ data.room_type_id = b.room_type_id
             /\ ValidRequest(data)
             /\ Overlaps(Ord(b.check_in_date), Ord(b.check_out_date),
                         Ord(data.check_in_date), Ord(data.check_out_date))
             /\ HalfOpenFree(c.bks, b.room_no, data))
                => LET r == make_booking(c.bks, room_types, data)
                   IN  /\ r.f.ret.code = 200
                       /\ r.f.ret.booking.room_no = b.room_no

\* C6: a cancel_booking call on a booking that is already cancelled, served
\* when no request is in progress, is rejected, so no booking is cancelled
\* with success twice.
C6_NoSecondCancel ==
    \A id \in BookingIdsIn :
        (/\ Quiet
         /\ find_booking(bookings, id) # NoDoc
         /\ find_booking(bookings, id).status = "cancelled")
            => cancel_booking(bookings, room_types, id).f.ret.code # 200

\* C7: in every interleaving of make_booking and cancel_booking the booking
\* ids are 1, 2, ..., n in the order of insertion: each committed booking
\* has the id one above the highest issued, cancelled ones included.
C7_IdsAreOneToN ==
    \A i \in 1..Len(bookings) : bookings[i].booking_id = i

\* a booking was cancelled and its unit and range were booked again: the new
\* booking has the next id, not the id of the cancelled one
C7_Witness ==
    /\ Len(bookings) = 2
    /\ bookings[1].status = "cancelled" /\ Confirmed(bookings[2])
    /\ bookings[1].room_no = bookings[2].room_no
    /\ RangesOverlap(bookings[1], bookings[2])

\* C8: a booking record is inserted as confirmed, the only change of status
\* is confirmed -> cancelled, and a cancelled booking stays cancelled.
C8_StatusMachine ==
    [][/\ Len(bookings') >= Len(bookings)
       /\ \A i \in 1..Len(bookings') :
             IF i <= Len(bookings)
               THEN \/ bookings'[i].status = bookings[i].status
                    \/ /\ bookings[i].status = "confirmed"
                       /\ bookings'[i].status = "cancelled"
               ELSE bookings'[i].status = "confirmed"]_vars

\* the only booking of the ledger has been cancelled with success, and a
\* second cancel_booking that has found it stands before its write
C8_Witness ==
    /\ Len(bookings) = 1 /\ bookings[1].status = "cancelled"
    /\ resp.op = "cancel_booking" /\ resp.ret.code = 200
    /\ \E t \in Tasks :
          tasks[t].pc = "cancel_update" /\ tasks[t].booking_id = 1

\* the change a successful cancel_booking makes: statuses only
OnlyStatusChanged(old, new) ==
    /\ Len(new) = Len(old)
    /\ \A i \in 1..Len(old) : [new[i] EXCEPT !.status = old[i].status] = old[i]

\* C9: a step that ends a request with a rejection or a storage failure
\* leaves the booking collection as it was, so does every step that does not
\* end a request, and the step that ends a make_booking with success adds
\* exactly one record, the one it returns.
C9_NoPartialCommit ==
    [][\A t \in Tasks :
          tasks'[t] # tasks[t] =>
              IF Ends(t) /\ resp'.ret.code = 200
                THEN IF resp'.op = "make_booking"
                       THEN bookings' = Append(bookings, resp'.ret.booking)
                       ELSE OnlyStatusChanged(bookings, bookings')
                ELSE bookings' = bookings]_vars

\* a request has ended with an insert refused by the index, and the ledger
\* holds the one booking that the other request committed
C9_Witness ==
    /\ Len(bookings) = 1
    /\ resp.op = "make_booking" /\ resp.ret.code = 500
    /\ resp.ret.booking = NoBooking

\* the booking is of the room type and the dates of the request
SameStay(b, data) ==
    /\ b.room_type_id = data.room_type_id
    /\ b.check_in_date = data.check_in_date
    /\ b.check_out_date = data.check_out_date

\* C10: of two requests for the same room type and range, with at least two
\* units and no other booking in the ledger, both succeed, on distinct units:
\* the request that is answered when the ledger holds the booking of the
\* other and nothing else succeeds on another unit.
C10_BothCommitOnDistinctUnits ==
    [][\A t \in Tasks :
          (/\ Ends(t) /\ resp'.op = "make_booking"
           /\ ValidRequest(resp'.arg)
           /\ Len(UnitsOf(resp'.arg.room_type_id)) >= 2
           /\ Len(bookings) = 1
           /\ Confirmed(bookings[1])
           /\ SameStay(bookings[1], resp'.arg))
              => /\ resp'.ret.code = 200
                 /\ resp'.ret.booking.room_no # bookings[1].room_no]_vars

\* the reason codes of the responses
ReasonOf(ret) ==
    CASE ret.code = 200 -> "Ok"
      [] ret.detail \in {"Invalid date format, use YYYY-MM-DD",
                         "Date must be in YYYY-MM-DD format"} -> "InvalidDateFormat"
      [] ret.detail = "Dates cannot be in the past" -> "PastDate"
      [] ret.detail = "Dates cannot be more than 30 days ahead" -> "TooFarAhead"
      [] ret.detail = "check_out_date must be after check_in_date" -> "InvalidRange"
      [] ret.detail = "Room type not found" -> "RoomTypeNotFound"
      [] ret.detail = "You must stay between min_days - max_days days"
            -> "StayLengthOutOfBounds"
      [] ret.detail \in {"Max adults allowed for this room",
                         "Max children allowed for this room"} -> "CapacityExceeded"
      [] ret.detail \in {"This room type is not available for the selected dates or capacity",
                         "No rooms available"} -> "NoUnitsAvailable"
      [] OTHER -> "Other"

GuardReasons == {"InvalidDateFormat", "PastDate", "TooFarAhead", "InvalidRange"}

\* the first rule of the Policy Guard that the dates fail, or "Pass"
FirstFailingRule(check_in, check_out) ==
    LET ci == Strptime(check_in)
        co == Strptime(check_out)
    IN  IF ~(ci.ok /\ co.ok) THEN "InvalidDateFormat"
        ELSE IF ci.ord < today \/ co.ord < today THEN "PastDate"
        ELSE IF ci.ord > today + 30 \/ co.ord > today + 30 THEN "TooFarAhead"
        ELSE IF ~(co.ord > ci.ord) THEN "InvalidRange"
        ELSE "Pass"

\* the response is the verdict of the Policy Guard on the dates
GuardVerdict(check_in, check_out, ret) ==
    LET rule == FirstFailingRule(check_in, check_out)
    IN  IF rule = "Pass" THEN ReasonOf(ret) \notin GuardReasons
        ELSE ReasonOf(ret) = rule

\* C11: whatever the two date strings and the day of the clock, make_booking
\* and available_rooms both answer with the rejection of the first rule that
\* fails in the order InvalidDateFormat, PastDate, TooFarAhead, InvalidRange,
\* and with none of these four when no rule fails.
C11_GuardOrder ==
    resp.op \in {"make_booking", "available_rooms"} =>
        GuardVerdict(resp.arg.check_in_date, resp.arg.check_out_date, resp.ret)

\* a query with a date in the past and the dates in the wrong order has been
\* answered PastDate
C11_Witness ==
    /\ resp.op = "available_rooms"
    /\ resp.arg.check_in_date = D_1130 /\ resp.arg.check_out_date = D_1129
    /\ today = Today1129 + 1
    /\ ReasonOf(resp.ret) = "PastDate"

\* the check-in date of the request is a date before today
CheckInBeforeToday(data) ==
    Strptime(data.check_in_date).ok /\ Strptime(data.check_in_date).ord < today

\* C12 as stated: a booking request with its check-in before today is
\* answered PastDate and stores no booking, whatever its other fields, the
\* check-out string included.
C12_PastCheckIn ==
    [][\A t \in Tasks :
          (Ends(t) /\ resp'.op = "make_booking" /\ CheckInBeforeToday(resp'.arg)) =>
              (ReasonOf(resp'.ret) = "PastDate" /\ bookings' = bookings) ]_vars

\* C12 amended: a booking request with its check-in before today and a
\* check-out string that parses as a date is answered PastDate and stores no
\* booking, whatever the room type, the check-out date, the party and the
\* email.
C12_PastCheckInParsedCheckOut ==
    [][\A t \in Tasks :
          (/\ Ends(t) /\ resp'.op = "make_booking"
           /\ CheckInBeforeToday(resp'.arg)
           /\ Strptime(resp'.arg.check_out_date).ok) =>
              (ReasonOf(resp'.ret) = "PastDate" /\ bookings' = bookings) ]_vars

\* a request with yesterday's check-in, a bookable check-out, an unknown room
\* type and a party too large for any room has been answered PastDate
C12_Witness ==
    /\ resp.op = "make_booking"
    /\ CheckInBeforeToday(resp.arg)
    /\ resp.arg.check_out_date = D_1130
    /\ resp.arg.room_type_id = 999
    /\ resp.arg.adults = 3
    /\ resp.arg.email = E_bob
    /\ ReasonOf(resp.ret) = "PastDate"

\* the number of nights of the request
StayDays(data) == Ord(data.check_out_date) - Ord(data.check_in_date)

\* the stay of the request is shorter or longer than the room type allows
StayOutOfBounds(data, rt) ==
    StayDays(data) < rt.min_days \/ StayDays(data) > rt.max_days

\* the party of the request is larger than the room type holds
PartyExceeds(data, rt) ==
    data.adults > rt.capacity.adults \/ data.children > rt.capacity.children

\* the reason of the earliest stage that the request fails, "Units" when
\* only the availability of a unit is left to decide
EarliestStage(data) ==
    LET rt == find_room_type(room_types, data.room_type_id)
    IN  IF FirstFailingRule(data.check_in_date, data.check_out_date) # "Pass"
        THEN FirstFailingRule(data.check_in_date, data.check_out_date)
        ELSE IF rt = NoDoc THEN "RoomTypeNotFound"
        ELSE IF StayOutOfBounds(data, rt) THEN "StayLengthOutOfBounds"
        ELSE IF PartyExceeds(data, rt) THEN "CapacityExceeded"
        ELSE "Units"

\* the reasons of the stages before the search of a free unit
EarlierReasons ==
    GuardReasons \cup {"RoomTypeNotFound", "StayLengthOutOfBounds", "CapacityExceeded"}

\* C13: make_booking answers with the reason of the earliest stage that the
\* request fails, in the order Policy Guard, stay length, capacity, unit
\* availability (the lookup of the room type comes after the Policy Guard),
\* and with the reason of none of the earlier stages when the request fails
\* none of them; a stay out of bounds is answered StayLengthOutOfBounds also
\* when the party exceeds the capacity and units are free.
C13_StageOrder ==
    resp.op = "make_booking" =>
        IF EarliestStage(resp.arg) = "Units"
        THEN ReasonOf(resp.ret) \notin EarlierReasons
        ELSE ReasonOf(resp.ret) = EarliestStage(resp.arg)

\* a request for two nights in a room type of one night at most, with three
\* adults where two fit, on an empty ledger, has been answered
\* StayLengthOutOfBounds
C13_Witness ==
    /\ resp.op = "make_booking"
    /\ resp.arg.room_type_id = 101
    /\ FirstFailingRule(resp.arg.check_in_date, resp.arg.check_out_date) = "Pass"
    /\ StayOutOfBounds(resp.arg, find_room_type(room_types, 101))
    /\ PartyExceeds(resp.arg, find_room_type(room_types, 101))
    /\ bookings = <<>>
    /\ ReasonOf(resp.ret) = "StayLengthOutOfBounds"

\* C14: when no request is in progress, the booking that a make_booking
\* served with no other request in between stores is on the earliest unit of room_numbers
\* that no confirmed booking overlaps: no confirmed booking of the ledger
\* overlaps its range on its unit, and on every unit listed before it one
\* does.
C14_FirstFreeUnit ==
    \A data \in BookingRequests :
        LET ret == make_booking(bookings, room_types, data).f.ret
            units == UnitsOf(data.room_type_id)
        IN  (Quiet /\ ret.code = 200) =>
                \E k \in 1..Len(units) :
                    /\ units[k] = ret.booking.room_no
                    /\ HalfOpenFree(bookings, units[k], data)
                    /\ \A j \in 1..(k - 1) : ~HalfOpenFree(bookings, units[j], data)

\* the units that the response of the query lists for the room type
ReturnedUnits(ret, room_type_id) ==
    UNION {{ret.rooms[i].room_numbers[k].room_no :
                k \in 1..Len(ret.rooms[i].room_numbers)} :
            i \in {j \in 1..Len(ret.rooms) : ret.rooms[j].id = room_type_id}}

\* the room types of the catalog that hold the party of the query
Matching(q) ==
    {i \in 1..Len(room_types) :
        /\ room_types[i].capacity.adults >= q.adults
        /\ room_types[i].capacity.children >= q.children}

\* C15: for every ledger and every range that passes the date rules, the
\* units that available_rooms, served when no request is in progress, returns for a room type that holds the party
\* are exactly its units that no confirmed booking overlaps by the half-open
\* rule.
C15_QueryIsHalfOpen ==
    \A q \in AvailQueries :
        LET ret == available_rooms(bookings, room_types, q)
        IN  (Quiet /\ ret.code = 200) =>
                \A i \in Matching(q) :
                    ReturnedUnits(ret, room_types[i].id)
                        = {u \in {room_types[i].room_numbers[k].room_no :
                                     k \in 1..Len(room_types[i].room_numbers)} :
                              HalfOpenFree(bookings, u, q)}

\* C16: for every ledger, room type, range and party that pass validation, a
\* unit is returned by available_rooms, served when no request is in
\* progress, exactly when the scan of make_booking
\* finds it free, also when the ledger holds date strings that the parser
\* accepted without zero padding.
C16_SameOverlapRule ==
    \A q \in AvailQueries :
        LET ret == available_rooms(bookings, room_types, q)
        IN  (Quiet /\ ret.code = 200) =>
                \A i \in Matching(q) :
                    \A k \in 1..Len(room_types[i].room_numbers) :
                        LET u == room_types[i].room_numbers[k].room_no
                        IN  (u \in ReturnedUnits(ret, room_types[i].id))
                              <=> UnitFree(bookings, u, Ord(q.check_in_date),
                                           Ord(q.check_out_date))

\* C17: no stored booking is for a party larger than the capacity of its room
\* type, and a successful availability query lists no room type whose
\* capacity is below the party of the query.
C17_PartyWithinCapacity ==
    /\ \A i \in 1..Len(bookings) :
        LET rt == find_room_type(room_types, bookings[i].room_type_id)
        IN  /\ bookings[i].adults <= rt.capacity.adults
            /\ bookings[i].children <= rt.capacity.children
    /\ (resp.op = "available_rooms" /\ resp.ret.code = 200) =>
        \A i \in 1..Len(resp.ret.rooms) :
            /\ ~(resp.ret.rooms[i].capacity.adults < resp.arg.adults)
            /\ ~(resp.ret.rooms[i].capacity.children < resp.arg.children)

\* a booking for two adults and a child is stored, and a query for two adults
\* and a child has been answered with the one room type that holds them
C17_Witness ==
    /\ \E i \in 1..Len(bookings) : bookings[i].adults = 2 /\ bookings[i].children = 1
    /\ resp.op = "available_rooms"
    /\ resp.ret.code = 200
    /\ resp.arg.adults = 2
    /\ Len(resp.ret.rooms) = 1
    /\ Len(room_types) = 2

\* the Latin capital letters A to Z
Capitals == 65..90

\* The letters of an address, their case set aside: each character in its
\* lower-case form, the sigma in the form it has inside a word wherever it
\* stands.
RECURSIVE Letters(_)
Letters(s) ==
    IF Len(s) = 0 THEN <<>>
    ELSE Letters(SubSeq(s, 1, Len(s) - 1))
            \o (IF s[Len(s)] = FinalSigma THEN <<SmallSigma>>
                ELSE LowerChar(s[Len(s)]))

\* the two addresses are equal ignoring the case of their letters
EqualsIgnoringCase(a, b) == Letters(a) = Letters(b)

\* the stored bookings whose address equals email ignoring case, in order
BookingsOf(email) ==
    LET Theirs(b) == EqualsIgnoringCase(b.email, email)
    IN  SelectSeq(bookings, Theirs)

\* C18: a booking is stored with the lower-cased form of the address of its
\* request, which equals that address ignoring case and holds no capital
\* letter, and the lookup of an address returns exactly the stored bookings
\* whose address equals it ignoring case (none of them: 404), for every pair
\* of case variants.
C18_EmailCaseNormalized ==
    /\ (resp.op = "make_booking" /\ resp.ret.code = 200) =>
        /\ resp.ret.booking.email = Lower(resp.arg.email)
        /\ EqualsIgnoringCase(resp.ret.booking.email, resp.arg.email)
        /\ \A i \in 1..Len(resp.ret.booking.email) :
              resp.ret.booking.email[i] \notin Capitals
    /\ resp.op = "get_bookings_by_email" =>
        /\ resp.ret.bookings = BookingsOf(resp.arg)
        /\ resp.ret.code = IF BookingsOf(resp.arg) = <<>> THEN 404 ELSE 200

\* no two room types of the catalog have the same id
UniqueIds(rts) ==
    \A i \in 1..Len(rts) : \A j \in 1..Len(rts) : rts[i].id = rts[j].id => i = j

\* the two handlers that create a room type
CreateHandlers == {"add_room", "create_room_type"}

\* the answer of a create handler whose lookup finds the id
AlreadyExists(op) ==
    IF op = "add_room" THEN "Room ID already exists"
    ELSE "Room type with this ID already exists"

\* C19: after every step of every interleaving of creates, updates and
\* deletes, two creates of one id included, no two room types of the catalog
\* have the same id; a create, by add_room or by create_room_type, whose
\* lookup finds its id in the catalog is answered 400 with the handler's
\* "already exists" message and leaves the catalog as it is; a create whose
\* id has entered the catalog since its lookup fails with the error of the
\* unique index (500) and leaves the catalog as it is; and a create whose id
\* is in the catalog at neither step appends its room type and is answered
\* 200.
C19_UniqueRoomTypeIds ==
    [][ /\ UniqueIds(room_types')
        /\ \A t \in Tasks :
              (tasks[t].op \in CreateHandlers /\ tasks'[t] # tasks[t]) =>
                  LET in_catalog ==
                          find_room_type(room_types, tasks[t].data.id) # NoDoc
                      looks_up == tasks[t].pc \in {"add_find", "create_find"}
                  IN  /\ (looks_up /\ in_catalog) =>
                          /\ Ends(t)
                          /\ resp'.op = tasks[t].op
                          /\ resp'.arg = tasks[t].data
                          /\ resp'.ret.code = 400
                          /\ resp'.ret.detail = AlreadyExists(tasks[t].op)
                          /\ room_types' = room_types
                      /\ (looks_up /\ ~in_catalog) =>
                          ~Ends(t) /\ room_types' = room_types
                      /\ (~looks_up /\ in_catalog) =>
                          /\ Ends(t)
                          /\ resp'.op = tasks[t].op
                          /\ resp'.ret.code = 500
                          /\ resp'.ret.detail = "DuplicateKeyError"
                          /\ room_types' = room_types
                      /\ (~looks_up /\ ~in_catalog) =>
                          /\ Ends(t)
                          /\ resp'.op = tasks[t].op
                          /\ resp'.ret.code = 200
                          /\ room_types' = Append(room_types, tasks[t].data) ]_vars

\* three creates of room type 103 have met: one has stored it, a
\* create_room_type that looked it up afterwards has been answered 400, and
\* an add_room that had looked it up before is about to insert it against the
\* unique index; the catalog holds 103 once
C19_Witness ==
    /\ resp.op = "create_room_type" /\ resp.arg.id = 103
    /\ resp.ret.code = 400
    /\ resp.ret.detail = "Room type with this ID already exists"
    /\ \E t \in Tasks : tasks[t].pc = "add_insert" /\ tasks[t].data.id = 103
    /\ Cardinality({i \in 1..Len(room_types) : room_types[i].id = 103}) = 1

\* the handlers that write the catalog
CatalogWriters ==
    {"add_room", "create_room_type", "update_room_type", "delete_room_type"}

\* C20: no step of a create, an update or a delete of a room type changes
\* the ledger: every booking record stays as it was, also when its room type
\* is renamed, repriced or deleted.
C20_CatalogWritesKeepBookings ==
    [][\A t \in Tasks :
          (/\ tasks'[t] # tasks[t]
           /\ (tasks[t].op \in CatalogWriters \/ tasks'[t].op \in CatalogWriters))
              => bookings' = bookings ]_vars

\* room type 101 has been renamed and repriced, or deleted, while the ledger
\* holds a confirmed booking of it under its old name and price
C20_Witness ==
    /\ \E i \in 1..Len(bookings) :
          /\ bookings[i].room_type_id = 101
          /\ bookings[i].status = "confirmed"
          /\ bookings[i].room_name = "Deluxe"
          /\ bookings[i].total_price = 100
    /\ \A i \in 1..Len(room_types) :
          room_types[i].id = 101 => room_types[i].name = "Deluxe Plus"
    /\ resp.op \in {"update_room_type", "delete_room_type"}
    /\ resp.ret.code = 200

\* C21: no step removes a booking record or changes a field of one other
\* than status, and the step of cancel_booking that writes changes the status
\* of the booking with its id alone: every other booking, and every other
\* field of that booking, created_at included, stays as it was.
C21_OnlyCancelMutates ==
    [][ /\ Len(bookings') >= Len(bookings)
        /\ \A i \in 1..Len(bookings) :
              [bookings'[i] EXCEPT !.status = bookings[i].status] = bookings[i]
        /\ \A t \in Tasks :
              (tasks[t].pc = "cancel_update" /\ tasks'[t] # tasks[t]) =>
                  /\ Len(bookings') = Len(bookings)
                  /\ \A i \in 1..Len(bookings) :
                        bookings[i].booking_id # tasks[t].booking_id =>
                            bookings'[i] = bookings[i] ]_vars

\* the first of two bookings has been cancelled by a request that ended
\* with success, and the second is confirmed
C21_Witness ==
    /\ Len(bookings) = 2
    /\ bookings[1].status = "cancelled" /\ bookings[1].created_at = today
    /\ Confirmed(bookings[2])
    /\ resp.op = "cancel_booking" /\ resp.arg = 1 /\ resp.ret.code = 200
    /\ resp.ret.detail = "Booking cancelled successfully"

\* C22: every stored booking has stay_days equal to the days from its
\* check-in to its check-out, at least 1 and within min_days..max_days of its
\* room type, and total_price equal to the price of a night of the room type
\* times stay_days.
C22_DerivedFields ==
    \A i \in 1..Len(bookings) :
        LET b == bookings[i]
            rt == find_room_type(room_types, b.room_type_id)
        IN  /\ b.stay_days = Ord(b.check_out_date) - Ord(b.check_in_date)
            /\ b.stay_days >= 1
            /\ rt.min_days <= b.stay_days /\ b.stay_days <= rt.max_days
            /\ b.total_price = rt.pricing.total_price * b.stay_days

\* a booking of three nights at 60 a night is stored with the price 180
C22_Witness ==
    /\ resp.op = "make_booking" /\ resp.ret.code = 200
    /\ resp.ret.booking.stay_days = 3
    /\ resp.ret.booking.total_price = 180
    /\ \E i \in 1..Len(bookings) : bookings[i] = resp.ret.booking

\* C23: when no request is in progress, a make_booking served with no other
\* request in between is never answered "No rooms available": when
\* is_room_type_available has found a free unit, the loop that follows
\* selects a unit and the booking is stored, also for a room type with a
\* unit of number 0.
C23_SelectionFollowsAvailability ==
    Quiet =>
        \A data \in ZeroRequests :
            make_booking(bookings, room_types, data).f.ret.detail
                # "No rooms available"

\* C24: for every ledger and every booking_id, two cancel_booking calls leave
\* the collection as one call leaves it, and a call turns no cancelled
\* booking back into a confirmed one, so no unit it has freed is taken again.
C24_CancelIdempotentOnState ==
    \A id \in BookingIdsIn :
        LET once == cancel_booking(bookings, room_types, id).bks
            twice == cancel_booking(once, room_types, id).bks
        IN  /\ twice = once
            /\ Len(once) = Len(bookings)
            /\ \A i \in 1..Len(bookings) :
                  bookings[i].status = "cancelled" => once[i] = bookings[i]

\* a cancel_booking of booking 1 has ended with success, the booking is
\* cancelled next to a confirmed one, and one more cancel_booking of it would
\* end with success again
C24_Witness ==
    /\ resp.op = "cancel_booking" /\ resp.arg = 1 /\ resp.ret.code = 200
    /\ Len(bookings) = 2
    /\ bookings[1].status = "cancelled" /\ Confirmed(bookings[2])
    /\ cancel_booking(bookings, room_types, 1).f.ret.code = 200

\* C25: the step that writes a successful update_room_type(room_type_id,
\* updated), the room type being in the catalog when it runs, leaves in the
\* catalog a room type with the id room_type_id whose other fields are those
\* of the body, and leaves every other room type as it was, also when the id
\* of the body is not room_type_id.
C25_UpdateKeyedByPathId ==
    [][ \A t \in Tasks :
          (/\ tasks[t].pc = "update_write"
           /\ Ends(t)
           /\ resp'.ret.code = 200
           /\ PositionOf(room_types, tasks[t].data.room_type_id) # 0) =>
              LET p == PositionOf(room_types, tasks[t].data.room_type_id)
                  updated == tasks[t].data.updated
              IN  /\ Len(room_types') = Len(room_types)
                  /\ room_types'[p].id = tasks[t].data.room_type_id
                  /\ [room_types'[p] EXCEPT !.id = updated.id] = updated
                  /\ \A j \in 1..Len(room_types) :
                        j # p => room_types'[j] = room_types[j] ]_vars

====
